---------------------------- MODULE Spec2Model ----------------------------
(***************************************************************************)
(* ai-attire: the prompt-orchestration and response-reconciliation core.   *)
(*                                                                         *)
(*   RecommenderEngine  (services/recommender.ts)                          *)
(*   ContextParser      (services/context.ts)                              *)
(*                                                                         *)
(* Strings are TLA+ strings, taken apart with Len, SubSeq and \o, so that  *)
(* trim(), includes(), toLowerCase() and the title-casing are computed and *)
(* not assumed.  A model reply is a sequence of tokens: an opening brace, a    *)
(* closing brace, a piece of prose, or one "key": value member of a JSON   *)
(* object; the regular expression /\{[\s\S]*\}/ and JSON.parse work on     *)
(* that sequence.  JavaScript values carry their type tag, so that         *)
(* truthiness (a || b), Array.isArray and typeof are decided as the        *)
(* language decides them.                                                  *)
(***************************************************************************)
EXTENDS Integers, Sequences, FiniteSets, TLC

VARIABLES
  weatherService,   \* RecommenderEngine.weatherService is configured
  pc,               \* where the request of the engine stands
  flow,             \* "none" | "single" | "weather" | "legacy"
  imageBase64,      \* arguments of generateRecommendationsWithImage
  occasionText,
  useWeather,
  request,          \* argument of generateRecommendations (legacy)
  location,         \* local of generateRecommendationsWithWeather
  weatherData,      \* local of generateRecommendationsWithWeather
  prompt,           \* the prompt handed to the last LLM call
  reply,            \* the text the last LLM call resolved with
  recommendations,  \* local: the assembled response, before validation
  calls,            \* history of collaborator calls: start / end / fail
  called,           \* the entry point called: "none" | "image" | "legacy"
  rejection,        \* what the failing LLM call of the request rejected with
  outcome,          \* what the caller receives
  claudeService,    \* ContextParser.claudeService is provided
  useAI,            \* ContextParser.useAI
  cpPc,             \* where the parseOccasion call stands
  input,            \* argument of parseOccasion
  aiAnswer,         \* how the LLM call of parseOccasionWithAI ended
  context,          \* what the caller of parseOccasion receives
  history,          \* the parseOccasion calls that have settled, in order
  vsPc,             \* where the analyzeClothing call stands
  vsImage,          \* argument of analyzeClothing
  vsReply,          \* the text callClaudeVision resolved with
  analysis,         \* what the caller of analyzeClothing receives
  unsplashAccessKey,\* UnsplashImageSearch.unsplashAccessKey is set
  imgPc,            \* where the getImagesForRecommendations call stands
  imgRecs,          \* argument of getImagesForRecommendations
  lookups,          \* the searchOutfitImages promises, one per recommendation
  images,           \* what the caller of getImagesForRecommendations receives
  reqs              \* the locals of two concurrent generateRecommendationsWithImage calls

engineVars == << weatherService, pc, flow, imageBase64, occasionText,
                 useWeather, request, location, weatherData, prompt, reply,
                 recommendations, calls, called, rejection, outcome >>

parserVars == << claudeService, useAI, cpPc, input, aiAnswer, context, history >>

visionVars == << vsPc, vsImage, vsReply, analysis >>

imageVars == << unsplashAccessKey, imgPc, imgRecs, lookups, images >>

vars == << engineVars, parserVars, visionVars, imageVars, reqs >>

----------------------------------------------------------------------------
(* Bounds of the model.                                                    *)

\* longest "recommendations" array a generated model reply carries
MaxRecs == 2
\* calls of parseOccasion made on one ContextParser
MaxCalls == 3

----------------------------------------------------------------------------
(* JavaScript strings.                                                     *)

Whitespace == {" ", "\t"}

\* s.charAt(i - 1)
CharAt(s, i) == SubSeq(s, i, i)

\* String.prototype.trim
RECURSIVE TrimStart(_)
TrimStart(s) ==
  IF s = "" THEN ""
  ELSE IF CharAt(s, 1) \in Whitespace THEN TrimStart(SubSeq(s, 2, Len(s))) ELSE s

RECURSIVE TrimEnd(_)
TrimEnd(s) ==
  IF s = "" THEN ""
  ELSE IF CharAt(s, Len(s)) \in Whitespace THEN TrimEnd(SubSeq(s, 1, Len(s) - 1)) ELSE s

Trim(s) == TrimEnd(TrimStart(s))

----------------------------------------------------------------------------
(* JavaScript values: [t |-> type tag, v |-> payload].  The payload is     *)
(* the string itself for a string, and otherwise a sequence: the elements  *)
(* of an array, the members <<key, value>> of an object, <<n>> for a       *)
(* number, <<b>> for a boolean, and empty for undefined and null.          *)

JUndef   == [t |-> "undefined", v |-> << >>]
JNull    == [t |-> "null", v |-> << >>]
JStr(s)  == [t |-> "string", v |-> s]
JNum(n)  == [t |-> "number", v |-> << n >>]
JBool(b) == [t |-> "boolean", v |-> << b >>]
JArr(a)  == [t |-> "array", v |-> a]
JObj(m)  == [t |-> "object", v |-> m]

\* ToBoolean, as used by !x and x || y
Truthy(x) ==
  CASE x.t = "undefined" -> FALSE
    [] x.t = "null"      -> FALSE
    [] x.t = "string"    -> x.v # ""
    [] x.t = "number"    -> x.v[1] # 0
    [] x.t = "boolean"   -> x.v[1]
    [] OTHER             -> TRUE

\* variant of Or that takes x ?? y for x || y
Or_Nullish(x, y) == IF x.t \in {"undefined", "null"} THEN y ELSE x

\* x || y
Or(x, y) == IF Truthy(x) THEN x ELSE y

IsArray(x)  == x.t = "array"
IsString(x) == x.t = "string"

----------------------------------------------------------------------------
(* Thrown values.                                                          *)

NoError == [kind |-> "none", message |-> ""]
\* new Error(message)
Error(m) == [kind |-> "Error", message |-> m]

----------------------------------------------------------------------------
(* The text of a model reply, as tokens.                                   *)

LB == [k |-> "{", key |-> "", val |-> JUndef]
RB == [k |-> "}", key |-> "", val |-> JUndef]
\* a piece of prose holding no brace
W  == [k |-> "prose", key |-> "", val |-> JUndef]
\* "key": value, one member of the top-level object of the payload
Member(key, val) == [k |-> "member", key |-> key, val |-> val]

NoMatch == [found |-> FALSE, text |-> << >>]

\* variant of JsonMatch with a lazy quantifier: from the first "{" to the
\* first "}" after it
JsonMatch_Lazy(response) ==
  LET opens  == {i \in 1..Len(response) : response[i] = LB}
      closes == {i \in 1..Len(response) : response[i] = RB}
  IN  IF \E i \in opens : \E j \in closes : i < j
      THEN LET first == CHOOSE i \in opens :
                          /\ \E j \in closes : i < j
                          /\ \A i2 \in opens : (\E j \in closes : i2 < j) => i <= i2
               last  == CHOOSE j \in closes :
                          /\ first < j
                          /\ \A j2 \in closes : first < j2 => j <= j2
           IN  [found |-> TRUE, text |-> SubSeq(response, first, last)]
      ELSE NoMatch

\* response.match(/\{[\s\S]*\}/): the leftmost "{" that has a "}" after it,
\* extended greedily to the last "}" of the text
JsonMatch(response) ==
  LET opens  == {i \in 1..Len(response) : response[i] = LB}
      closes == {i \in 1..Len(response) : response[i] = RB}
  IN  IF \E i \in opens : \E j \in closes : i < j
      THEN LET first == CHOOSE i \in opens :
                          /\ \E j \in closes : i < j
                          /\ \A i2 \in opens : (\E j \in closes : i2 < j) => i <= i2
               last  == CHOOSE j \in closes : \A j2 \in closes : j2 <= j
           IN  [found |-> TRUE, text |-> SubSeq(response, first, last)]
      ELSE NoMatch

\* JSON.parse accepts the span: one object, "{" members "}"
JSONValid(text) ==
  /\ Len(text) >= 2
  /\ text[1] = LB
  /\ text[Len(text)] = RB
  /\ \A i \in 2..(Len(text) - 1) : text[i].k = "member"

\* property access on the object JSON.parse returns: the last member of that
\* name wins, and a name that is no member reads undefined
Field(text, key) ==
  LET at == {i \in 2..(Len(text) - 1) : text[i].key = key}
  IN  IF at = {} THEN JUndef
      ELSE text[CHOOSE i \in at : \A j \in at : j <= i].val

----------------------------------------------------------------------------
(* RecommenderEngine: values.                                              *)

\* member access on a JavaScript object value
Get(o, key) ==
  LET at == {i \in 1..Len(o.v) : o.v[i][1] = key}
  IN  IF o.t # "object" \/ at = {} THEN JUndef
      ELSE o.v[CHOOSE i \in at : \A j \in at : j <= i][2]

\* let weatherData: WeatherData | undefined
NoWeather == [present |-> FALSE, location |-> "", temperature |-> 0,
              weatherDescription |-> ""]

NoRequest == [clothingAnalysis |-> JUndef, occasionContext |-> JUndef]

NoPrompt == [template |-> "none", occasionText |-> "",
             weather |-> NoWeather, request |-> NoRequest]

NoResponse == [none |-> TRUE]

\* a function's completion: a returned value or a thrown one
Return(x) == [ok |-> TRUE, value |-> x, error |-> NoError]
Throw(e)  == [ok |-> FALSE, value |-> NoResponse, error |-> e]

\* the template literal of generateRecommendationsWithWeather, step 1
locationPrompt(text) ==
  [template |-> "location", occasionText |-> text,
   weather |-> NoWeather, request |-> NoRequest]

buildWeatherAwarePrompt(text, wd) ==
  [template |-> "weather", occasionText |-> text,
   weather |-> wd, request |-> NoRequest]

buildSingleCallPrompt(text) ==
  [template |-> "single", occasionText |-> text,
   weather |-> NoWeather, request |-> NoRequest]

buildPrompt(req) ==
  [template |-> "legacy", occasionText |-> "",
   weather |-> NoWeather, request |-> req]

\* variant of ArrayOrUndefined that defaults to the empty array
ArrayOrUndefined_OrEmpty(x) == IF IsArray(x) THEN x ELSE JArr(<< >>)

\* Array.isArray(x) ? x : undefined
ArrayOrUndefined(x) == IF IsArray(x) THEN x ELSE JUndef

\* Array.isArray(x) ? x : []
ArrayOrEmpty(x) == IF IsArray(x) THEN x ELSE JArr(<< >>)

parseSingleCallResponse(response) ==
  LET jsonMatch == JsonMatch(response)
      parsed    == jsonMatch.text
  IN  IF ~jsonMatch.found
      THEN Throw(Error("Failed to parse comprehensive response: " \o "No JSON object found in Claude's response"))
      ELSE IF ~JSONValid(parsed)
      THEN Throw(Error("Failed to parse comprehensive response: " \o "SyntaxError"))
      ELSE Return(
        [clothingAnalysis  |-> Or(Field(parsed, "clothingAnalysis"), JUndef),
         occasionContext   |-> Or(Field(parsed, "occasionContext"), JUndef),
         occasion          |-> Or(Field(parsed, "occasion"), JStr("Unknown")),
         location          |-> Or(Field(parsed, "location"), JUndef),
         summary           |-> Or(Field(parsed, "summary"), JStr("")),
         recommendations   |-> ArrayOrEmpty(Field(parsed, "recommendations")),
         culturalTips      |-> ArrayOrUndefined(Field(parsed, "culturalTips")),
         dontWear          |-> ArrayOrUndefined(Field(parsed, "dontWear")),
         shoppingTips      |-> ArrayOrUndefined(Field(parsed, "shoppingTips")),
         weatherData       |-> NoWeather,
         weatherConsidered |-> JUndef])

parseResponse(response, occasionContext) ==
  LET jsonMatch == JsonMatch(response)
      parsed    == jsonMatch.text
  IN  IF ~jsonMatch.found
      THEN Throw(Error("Failed to parse recommendation response: " \o "No JSON object found in Claude's response"))
      ELSE IF ~JSONValid(parsed)
      THEN Throw(Error("Failed to parse recommendation response: " \o "SyntaxError"))
      ELSE Return(
        [clothingAnalysis  |-> JUndef,
         occasionContext   |-> JUndef,
         occasion          |-> Or(Field(parsed, "occasion"),
                                  Or(Get(occasionContext, "occasion"),
                                     JStr("Unknown"))),
         location          |-> Or(Field(parsed, "location"),
                                  Or(Get(occasionContext, "location"), JUndef)),
         summary           |-> Or(Field(parsed, "summary"), JStr("")),
         recommendations   |-> ArrayOrEmpty(Field(parsed, "recommendations")),
         culturalTips      |-> ArrayOrUndefined(Field(parsed, "culturalTips")),
         dontWear          |-> ArrayOrUndefined(Field(parsed, "dontWear")),
         shoppingTips      |-> ArrayOrUndefined(Field(parsed, "shoppingTips")),
         weatherData       |-> NoWeather,
         weatherConsidered |-> JUndef])

\* x.trim().length === 0 on a value that need not be a string:
\* calling trim on anything else throws a TypeError
TypeErrorTrim == Error("TypeError: trim is not a function")

\* variant of BadRecommendation that accepts any string, blank ones included
BadRecommendation_NoTrim(rec) == ~IsString(rec)

\* typeof rec !== "string" || rec.trim().length === 0
BadRecommendation(rec) == ~IsString(rec) \/ Trim(rec.v) = ""

\* variant of validateResponse without the check on the length of
\* recommendations
validateResponse_NoEmptyCheck(response) ==
  IF ~Truthy(response.occasion)
  THEN Error("Recommendation response must include an occasion")
  ELSE IF ~IsString(response.occasion) THEN TypeErrorTrim
  ELSE IF Trim(response.occasion.v) = ""
  THEN Error("Recommendation response must include an occasion")
  ELSE IF ~Truthy(response.summary)
  THEN Error("Recommendation response must include a summary")
  ELSE IF ~IsString(response.summary) THEN TypeErrorTrim
  ELSE IF Trim(response.summary.v) = ""
  THEN Error("Recommendation response must include a summary")
  ELSE IF \E i \in 1..Len(response.recommendations.v) :
            BadRecommendation(response.recommendations.v[i])
  THEN Error("All recommendations must be non-empty strings")
  ELSE NoError

\* variant of validateResponse that looks at the first recommendation only
validateResponse_FirstOnly(response) ==
  IF ~Truthy(response.occasion)
  THEN Error("Recommendation response must include an occasion")
  ELSE IF ~IsString(response.occasion) THEN TypeErrorTrim
  ELSE IF Trim(response.occasion.v) = ""
  THEN Error("Recommendation response must include an occasion")
  ELSE IF ~Truthy(response.summary)
  THEN Error("Recommendation response must include a summary")
  ELSE IF ~IsString(response.summary) THEN TypeErrorTrim
  ELSE IF Trim(response.summary.v) = ""
  THEN Error("Recommendation response must include a summary")
  ELSE IF ~Truthy(response.recommendations)
          \/ Len(response.recommendations.v) = 0
  THEN Error("Recommendation response must include at least one outfit recommendation")
  ELSE IF BadRecommendation(response.recommendations.v[1])
  THEN Error("All recommendations must be non-empty strings")
  ELSE NoError

\* validateResponse: the Error it throws, NoError when it returns
validateResponse(response) ==
  IF ~Truthy(response.occasion)
  THEN Error("Recommendation response must include an occasion")
  ELSE IF ~IsString(response.occasion) THEN TypeErrorTrim
  ELSE IF Trim(response.occasion.v) = ""
  THEN Error("Recommendation response must include an occasion")
  ELSE IF ~Truthy(response.summary)
  THEN Error("Recommendation response must include a summary")
  ELSE IF ~IsString(response.summary) THEN TypeErrorTrim
  ELSE IF Trim(response.summary.v) = ""
  THEN Error("Recommendation response must include a summary")
  ELSE IF ~Truthy(response.recommendations)
          \/ Len(response.recommendations.v) = 0
  THEN Error("Recommendation response must include at least one outfit recommendation")
  ELSE IF \E i \in 1..Len(response.recommendations.v) :
            BadRecommendation(response.recommendations.v[i])
  THEN Error("All recommendations must be non-empty strings")
  ELSE NoError

\* variant of handleError that wraps every error in a new one
handleError_Wraps(error) == Error("Recommender engine error: " \o error.message)

\* handleError: an Error as it is, anything else turned into an Error
handleError(error) ==
  IF error.kind = "Error" THEN error
  ELSE IF error.kind = "object" THEN Error(error.message)
  ELSE Error("Recommender engine error: " \o error.message)

----------------------------------------------------------------------------
(* RecommenderEngine: the inputs and the collaborators' answers.           *)

\* imageBase64 arguments: empty, blank, and image data
Images == { "", " ", "iVBORw0KGgo=" }

\* occasionText arguments: empty, blank, and two descriptions
OccasionTexts == { "", " \t", "gym", " wedding in Tokyo " }

\* what the location-extraction call may answer
LocationReplies == { "NONE", " NONE\t", "", "  ", "Tokyo", " Tokyo, Japan ", "none" }

\* what getCurrentWeather may resolve with
WeatherSnapshots ==
  { [present |-> TRUE, location |-> "Tokyo, Japan", temperature |-> 31,
     weatherDescription |-> "Clear sky"],
    [present |-> TRUE, location |-> "Oslo, Norway", temperature |-> 0,
     weatherDescription |-> "Heavy snow"] }

\* what a collaborator may throw: an Error, an object with a message, and a
\* value that is neither
ThrownValues ==
  { Error("Claude API failed"),
    [kind |-> "object", message |-> "rate limited"],
    [kind |-> "primitive", message |-> "boom"] }

\* entries of a "recommendations" array in a model reply
RecEntries == { JStr("a"), JStr(" "), JNum(5) }

RecArrays == UNION { [1..n -> RecEntries] : n \in 0..MaxRecs }

\* "recommendations" in a model reply: missing, null, a string, an array
RecValues == { JUndef, JNull, JStr("a") } \cup { JArr(a) : a \in RecArrays }

\* "occasion" in a model reply
OccasionValues == { JUndef, JNull, JStr(" "), JStr("gym"), JNum(5) }

\* "summary" in a model reply
SummaryValues == { JUndef, JStr(" \t"), JStr("ok"), JArr(<< >>) }

\* the member of a JSON object text, left out when the value is missing
Opt(key, val) == IF val = JUndef THEN << >> ELSE << Member(key, val) >>

\* the text of a JSON object with the given members
Render(members) == << LB >> \o members \o << RB >>

Core(occ, sum, recs) ==
  Opt("occasion", occ) \o Opt("summary", sum) \o Opt("recommendations", recs)

GoodCore == Core(JStr("gym"), JStr("ok"), JArr(<< JStr("a") >>))

\* values of the optional members of a model reply
TipValues == { JUndef, JNull, JArr(<< >>), JArr(<< JStr("t") >>), JStr("t") }

ContextValues ==
  { JUndef, JNull,
    JObj(<< << "occasion", JStr("gym") >>, << "formality", JStr("athletic") >> >>),
    JObj(<< << "occasion", JStr("gym") >>, << "formality", JStr("fancy") >> >>) }

LocationValues == { JUndef, JNull, JStr("Tokyo") }

\* model replies that are one JSON object and nothing else
ObjectReplies ==
  { Render(Core(o, s, r)) : o \in OccasionValues, s \in SummaryValues, r \in RecValues }
  \cup
  { Render(GoodCore \o Opt("location", l) \o Opt("culturalTips", t)
                    \o Opt("occasionContext", c)) :
      l \in LocationValues, t \in TipValues, c \in ContextValues }
  \cup
  { Render(GoodCore \o << Member("weatherConsidered", JBool(TRUE)),
                          Member("occasion", JNull) >>),
    Render(<< Member("summary", JStr("")) >> \o GoodCore) }
  \cup
  { Render(GoodCore \o << Member("location", JStr("")) >>
                    \o Opt("dontWear", d) \o Opt("shoppingTips", t)) :
      d \in {JNull, JArr(<< >>), JStr("t")}, t \in {JUndef, JArr(<< JStr("t") >>)} }

\* model replies with prose around the object, and replies that hold no
\* decodable object
OtherReplies ==
  { << W >> \o Render(GoodCore) \o << W >>,
    << W >> \o Render(Core(JStr("gym"), JStr("ok"), JUndef)),
    << >>, << W >>, << RB, W, LB >>, << LB, W >>, << LB, W, RB >>,
    Render(GoodCore) \o Render(GoodCore),
    Render(GoodCore) \o << W, RB >>,
    << LB >> \o Render(GoodCore),
    Render(<< >>) }

Replies == ObjectReplies \cup OtherReplies

\* legacy requests
Shirt == JObj(<< << "type", JStr("s") >> >>)

ClothingAnalyses ==
  { JUndef,
    JObj(<< << "items", JArr(<< >>) >> >>),
    JObj(<< << "overallStyle", JStr("c") >> >>),
    JObj(<< << "items", JArr(<< Shirt >>) >> >>) }

OccasionContexts ==
  { JUndef,
    JObj(<< << "occasion", JStr("") >> >>),
    JObj(<< << "occasion", JStr(" ") >> >>),
    JObj(<< << "occasion", JStr("gym") >> >>),
    JObj(<< << "occasion", JStr("gym") >>, << "location", JStr("Tokyo") >> >>) }

Requests ==
  { [clothingAnalysis |-> ca, occasionContext |-> oc] :
      ca \in ClothingAnalyses, oc \in OccasionContexts }

----------------------------------------------------------------------------
(* ContextParser: string helpers.                                          *)

UpperChars == "ABCDEFGHIJKLMNOPQRSTUVWXYZ"
LowerChars == "abcdefghijklmnopqrstuvwxyz"

\* the character of `to` at the place c has in `from`, and c when it has none
MapChar(c, from, to) ==
  LET at == {i \in 1..Len(from) : CharAt(from, i) = c}
  IN  IF at = {} THEN c ELSE CharAt(to, CHOOSE i \in at : TRUE)

\* String.prototype.toLowerCase
RECURSIVE toLowerCase(_)
toLowerCase(s) ==
  IF s = "" THEN ""
  ELSE MapChar(CharAt(s, 1), UpperChars, LowerChars)
       \o toLowerCase(SubSeq(s, 2, Len(s)))

\* String.prototype.includes
includes(text, keyword) ==
  \E i \in 1..(Len(text) - Len(keyword) + 1) :
    SubSeq(text, i, i + Len(keyword) - 1) = keyword

\* loc.split(' ')
RECURSIVE split(_)
split(s) ==
  LET at == {i \in 1..Len(s) : CharAt(s, i) = " "}
  IN  IF at = {} THEN << s >>
      ELSE LET i == CHOOSE i \in at : \A j \in at : i <= j
           IN  << SubSeq(s, 1, i - 1) >> \o split(SubSeq(s, i + 1, Len(s)))

\* word.charAt(0).toUpperCase() + word.slice(1)
capitalize(word) ==
  IF word = "" THEN ""
  ELSE MapChar(CharAt(word, 1), LowerChars, UpperChars) \o SubSeq(word, 2, Len(word))

\* words.join(' ')
RECURSIVE join(_)
join(words) ==
  IF Len(words) = 0 THEN ""
  ELSE IF Len(words) = 1 THEN words[1]
  ELSE words[1] \o " " \o join(Tail(words))

\* the title-casing of extractLocation
titleCase(loc) == join([i \in 1..Len(split(loc)) |-> capitalize(split(loc)[i])])

\* an array of strings as a JavaScript value
StringArray(words) == JArr([i \in 1..Len(words) |-> JStr(words[i])])

\* for (group of groups) for (keyword of group.keywords)
\*   if (text.includes(keyword)) return group.value
\* the places of the groups that have a keyword in the text
MatchingGroups(groups, text) ==
  {g \in 1..Len(groups) :
     \E k \in 1..Len(groups[g].keywords) : includes(text, groups[g].keywords[k])}

\* the least element of a non-empty set of numbers
Least(S) == CHOOSE i \in S : \A j \in S : i <= j

----------------------------------------------------------------------------
(* ContextParser: the keyword path.                                        *)

occasions ==
  << [keywords |-> << "job interview", "interview" >>, value |-> "interview"],
     [keywords |-> << "wedding", "marriage", "ceremony" >>, value |-> "wedding"],
     [keywords |-> << "workout", "gym", "exercise", "running", "yoga", "fitness" >>, value |-> "workout"],
     [keywords |-> << "funeral", "memorial" >>, value |-> "funeral"],
     [keywords |-> << "gala", "ball" >>, value |-> "gala"],
     [keywords |-> << "formal event", "formal" >>, value |-> "formal event"],
     [keywords |-> << "business", "meeting", "conference", "office", "work" >>, value |-> "business"],
     [keywords |-> << "party", "celebration", "birthday" >>, value |-> "party"],
     [keywords |-> << "date", "dinner date", "romantic" >>, value |-> "date"],
     [keywords |-> << "brunch", "lunch" >>, value |-> "casual dining"],
     [keywords |-> << "beach", "pool" >>, value |-> "beach"],
     [keywords |-> << "hiking", "outdoor" >>, value |-> "outdoor activity"],
     [keywords |-> << "casual" >>, value |-> "casual"] >>

\* variant of extractOccasion that returns the last group that matches
extractOccasion_LastMatch(text) ==
  IF MatchingGroups(occasions, text) = {} THEN "general"
  ELSE occasions[CHOOSE g \in MatchingGroups(occasions, text) :
                   \A h \in MatchingGroups(occasions, text) : h <= g].value

\* extractOccasion: the value of the first group with a keyword in the text
extractOccasion(text) ==
  IF MatchingGroups(occasions, text) = {} THEN "general"
  ELSE occasions[Least(MatchingGroups(occasions, text))].value

locations ==
  << "japan", "thailand", "china", "korea", "singapore",
     "india", "vietnam", "malaysia", "indonesia", "philippines",
     "france", "germany", "italy", "spain", "uk",
     "england", "united states", "usa", "canada", "mexico",
     "brazil", "australia", "new zealand", "dubai", "egypt",
     "south africa", "new york", "los angeles", "san francisco", "chicago",
     "boston", "london", "paris", "rome", "barcelona",
     "berlin", "tokyo", "kyoto", "osaka", "beijing",
     "shanghai", "bangkok", "singapore", "hong kong", "seoul",
     "sydney", "melbourne" >>

\* variant of extractLocation that returns the last entry that occurs
extractLocation_LastEntry(text) ==
  LET hits == {i \in 1..Len(locations) : includes(text, locations[i])}
  IN  IF hits = {} THEN JUndef
      ELSE JStr(titleCase(locations[CHOOSE i \in hits : \A j \in hits : j <= i]))

\* the title-cased first entry that occurs in the text; undefined when none does
extractLocation(text) ==
  LET hits == {i \in 1..Len(locations) : includes(text, locations[i])}
  IN  IF hits = {} THEN JUndef ELSE JStr(titleCase(locations[Least(hits)]))

formalityMap ==
  << [key |-> "wedding", value |-> "formal"],
     [key |-> "funeral", value |-> "formal"],
     [key |-> "gala", value |-> "formal"],
     [key |-> "formal event", value |-> "formal"],
     [key |-> "interview", value |-> "formal"],
     [key |-> "business", value |-> "business-casual"],
     [key |-> "casual dining", value |-> "business-casual"],
     [key |-> "date", value |-> "business-casual"],
     [key |-> "workout", value |-> "athletic"],
     [key |-> "beach", value |-> "casual"],
     [key |-> "party", value |-> "casual"],
     [key |-> "casual", value |-> "casual"],
     [key |-> "general", value |-> "casual"] >>

\* variant of determineFormality with another default
determineFormality_DefaultFormal(occasion) ==
  LET at == {i \in 1..Len(formalityMap) : formalityMap[i].key = occasion}
  IN  IF at = {} THEN "formal" ELSE formalityMap[Least(at)].value

\* formalityMap[occasion] || "casual"
determineFormality(occasion) ==
  LET at == {i \in 1..Len(formalityMap) : formalityMap[i].key = occasion}
  IN  IF at = {} THEN "casual" ELSE formalityMap[Least(at)].value

tones ==
  << "elegant", "comfortable", "breathable", "professional", "casual",
     "sporty", "trendy", "conservative", "bold", "minimalist",
     "modern", "classic", "traditional", "sophisticated", "relaxed",
     "chic", "stylish", "edgy", "vintage", "bohemian",
     "preppy" >>

\* tones.filter(tone => text.includes(tone))
extractTone(text) == SelectSeq(tones, LAMBDA tone : includes(text, tone))

weatherKeywords ==
  << [keywords |-> << "humid", "humidity" >>, value |-> "humid"],
     [keywords |-> << "snowy", "snow" >>, value |-> "snowy"],
     [keywords |-> << "rainy", "rain", "wet", "monsoon" >>, value |-> "rainy"],
     [keywords |-> << "cold", "winter", "freezing", "chilly" >>, value |-> "cold"],
     [keywords |-> << "hot", "warm", "summer", "heat", "tropical" >>, value |-> "hot"],
     [keywords |-> << "dry", "arid" >>, value |-> "dry"],
     [keywords |-> << "windy" >>, value |-> "windy"] >>

extractWeather(text) ==
  IF MatchingGroups(weatherKeywords, text) = {} THEN JUndef
  ELSE JStr(weatherKeywords[Least(MatchingGroups(weatherKeywords, text))].value)

culturalContext ==
  << [key |-> "Japan", value |-> "Consider modest dress codes; remove shoes indoors"],
     [key |-> "Thailand", value |-> "Dress modestly, especially in temples; avoid pointing feet"],
     [key |-> "India", value |-> "Modest clothing recommended; consider cultural sensitivity"],
     [key |-> "Dubai", value |-> "Conservative dress expected; cover shoulders and knees"],
     [key |-> "Saudi Arabia", value |-> "Very conservative dress codes; women should cover"],
     [key |-> "Vatican", value |-> "Modest dress required; cover shoulders and knees"],
     [key |-> "Singapore", value |-> "Smart casual widely accepted; hot and humid climate"] >>

\* variant of extractCulturalNotes that looks the location up first
extractCulturalNotes_LocationFirst(loc, text) ==
  LET at == {i \in 1..Len(culturalContext) :
               Truthy(loc) /\ culturalContext[i].key = loc.v}
  IN  IF at # {} THEN JStr(culturalContext[Least(at)].value)
      ELSE IF includes(text, "temple") \/ includes(text, "mosque") \/ includes(text, "church")
      THEN JStr("Religious site - modest, respectful attire required")
      ELSE JUndef

\* extractCulturalNotes: religious-site keywords first, then the location
extractCulturalNotes(loc, text) ==
  IF includes(text, "temple") \/ includes(text, "mosque") \/ includes(text, "church")
  THEN JStr("Religious site - modest, respectful attire required")
  ELSE IF ~Truthy(loc) THEN JUndef
  ELSE LET at == {i \in 1..Len(culturalContext) : culturalContext[i].key = loc.v}
       IN  IF at = {} THEN JUndef ELSE JStr(culturalContext[Least(at)].value)

prefs ==
  << "breathable", "lightweight", "warm", "layered", "elegant",
     "comfortable", "professional", "minimalist", "bold", "colorful",
     "neutral", "fitted", "loose", "stretchy", "structured",
     "sustainable", "eco-friendly", "vintage", "luxury", "budget-friendly",
     "designer" >>

\* the second filter of extractPreferences
KeepPreference(pref, text) ==
  IF pref = "casual" \/ pref = "formal"
  THEN \/ includes(text, "prefer " \o pref)
       \/ includes(text, "want " \o pref)
       \/ includes(text, "need " \o pref)
  ELSE TRUE

extractPreferences(text) ==
  SelectSeq(SelectSeq(prefs, LAMBDA pref : includes(text, pref)),
            LAMBDA pref : KeepPreference(pref, text))

parseOccasionKeywordBased(inp) ==
  LET lowerInput == toLowerCase(inp)
  IN  [occasion             |-> JStr(extractOccasion(lowerInput)),
       location             |-> extractLocation(lowerInput),
       formality            |-> JStr(determineFormality(extractOccasion(lowerInput))),
       tone                 |-> StringArray(extractTone(lowerInput)),
       weatherConsideration |-> extractWeather(lowerInput),
       culturalNotes        |-> extractCulturalNotes(extractLocation(lowerInput),
                                                     lowerInput),
       preferences          |-> StringArray(extractPreferences(lowerInput)),
       rawInput             |-> JStr(inp)]

----------------------------------------------------------------------------
(* ContextParser: the AI path.                                             *)

validFormalities == << "casual", "business-casual", "formal", "athletic" >>

\* variant that takes the value of the reply as it comes
validateFormality_Unchecked(formality) == formality

\* validFormalities.includes(formality) ? formality : "casual"
validateFormality(formality) ==
  IF \E i \in 1..Len(validFormalities) :
       IsString(formality) /\ formality.v = validFormalities[i]
  THEN formality
  ELSE JStr("casual")

\* parseOccasionWithAI from the resolved LLM call on: its try block
parseOccasionWithAI(inp, response) ==
  LET jsonMatch == JsonMatch(response)
      parsed    == jsonMatch.text
  IN  IF ~jsonMatch.found
      THEN Throw(Error("Failed to parse Claude JSON response: "
                       \o "Error: No JSON found in Claude response"))
      ELSE IF ~JSONValid(parsed)
      THEN Throw(Error("Failed to parse Claude JSON response: " \o "SyntaxError"))
      ELSE Return(
        [occasion             |-> Or(Field(parsed, "occasion"), JStr("general")),
         location             |-> Or(Field(parsed, "location"), JUndef),
         formality            |-> validateFormality(Field(parsed, "formality")),
         tone                 |-> ArrayOrEmpty(Field(parsed, "tone")),
         weatherConsideration |-> Or(Field(parsed, "weatherConsideration"), JUndef),
         culturalNotes        |-> Or(Field(parsed, "culturalNotes"), JUndef),
         preferences          |-> ArrayOrEmpty(Field(parsed, "preferences")),
         rawInput             |-> JStr(inp)])

NoContext == [kind |-> "none", value |-> NoResponse, error |-> NoError]
ContextReturned(c) == [kind |-> "returned", value |-> c, error |-> NoError]
ContextThrown(e)   == [kind |-> "thrown", value |-> NoResponse, error |-> e]

NoAnswer == [kind |-> "none", text |-> << >>, error |-> NoError]
Answered(text) == [kind |-> "text", text |-> text, error |-> NoError]
Rejected(e)    == [kind |-> "thrown", text |-> << >>, error |-> e]

\* variant of AfterAI in which the error of the AI path reaches the caller
AfterAI_Rethrows(inp, completion) ==
  IF completion.ok THEN ContextReturned(completion.value)
  ELSE ContextThrown(completion.error)

\* parseOccasion once the AI path has completed: the catch discards the
\* error and falls through to the keyword path
AfterAI(inp, completion) ==
  IF completion.ok THEN ContextReturned(completion.value)
  ELSE ContextReturned(parseOccasionKeywordBased(inp))

----------------------------------------------------------------------------
(* RecommenderEngine: one request, from the call to what the caller gets.  *)
(* Every await is a point where the request waits for a collaborator: the  *)
(* action that issues the call runs the code up to the await, and the      *)
(* action of the collaborator's answer runs it from there to the next one. *)

NoOutcome == [kind |-> "none", response |-> NoResponse, error |-> NoError]
Returned(r) == [kind |-> "response", response |-> r, error |-> NoError]
Thrown(e)   == [kind |-> "error", response |-> NoResponse, error |-> e]

Call(svc, ev) == [svc |-> svc, ev |-> ev]

\* variant of Blank that takes whitespace for content
Blank_NoTrim(s) == s = ""

\* !s || s.trim().length === 0
Blank(s) == s = "" \/ Trim(s) = ""

\* a ContextParser on which parseOccasion has not been called
ParserIdle ==
  /\ claudeService = FALSE
  /\ useAI = FALSE
  /\ cpPc = "idle"
  /\ input = ""
  /\ aiAnswer = NoAnswer
  /\ context = NoContext
  /\ history = << >>

\* an engine on which nothing has been called
EngineIdle ==
  /\ pc = "idle"
  /\ flow = "none"
  /\ imageBase64 = ""
  /\ occasionText = ""
  /\ useWeather = FALSE
  /\ request = NoRequest
  /\ location = ""
  /\ weatherData = NoWeather
  /\ prompt = NoPrompt
  /\ reply = << >>
  /\ recommendations = NoResponse
  /\ calls = << >>
  /\ called = "none"
  /\ rejection = NoError
  /\ outcome = NoOutcome

\* an UnsplashImageSearch, without access key, on which nothing is called
ImageIdle ==
  /\ unsplashAccessKey = FALSE
  /\ imgPc = "idle"
  /\ imgRecs = << >>
  /\ lookups = << >>
  /\ images = [kind |-> "none", value |-> << >>, error |-> NoError]

\* a VisionServiceImpl on which analyzeClothing has not been called
VisionIdle ==
  /\ vsPc = "idle"
  /\ vsImage = ""
  /\ vsReply = << >>
  /\ analysis = NoOutcome

\* new RecommenderEngine(claudeService, weatherService?)
Init ==
  /\ weatherService \in BOOLEAN
  /\ EngineIdle
  /\ ParserIdle
  /\ VisionIdle
  /\ ImageIdle
  /\ reqs = << >>

\* variant of SelectFlow that does not look at the weather service
SelectFlow_IgnoresService(uw) == IF uw THEN "weather" ELSE "single"

\* the flow generateRecommendationsWithImage selects for valid inputs
SelectFlow(uw) == IF uw /\ weatherService THEN "weather" ELSE "single"

\* generateRecommendationsWithImage, up to its first await
GenerateRecommendationsWithImage(img, text, uw) ==
  /\ pc = "idle"
  /\ called' = "image"
  /\ imageBase64' = img
  /\ occasionText' = text
  /\ useWeather' = uw
  /\ IF Blank(img)
     THEN /\ outcome' = Thrown(Error("Image data (base64) is required"))
          /\ pc' = "done"
          /\ UNCHANGED << flow, prompt, calls >>
     ELSE IF Blank(text)
     THEN /\ outcome' = Thrown(Error("Occasion description is required"))
          /\ pc' = "done"
          /\ UNCHANGED << flow, prompt, calls >>
     ELSE IF SelectFlow(uw) = "weather"
     THEN /\ flow' = "weather"
          /\ prompt' = locationPrompt(text)
          /\ calls' = Append(calls, Call("text", "start"))
          /\ pc' = "awaitLocation"
          /\ UNCHANGED outcome
     ELSE /\ flow' = "single"
          /\ prompt' = buildSingleCallPrompt(text)
          /\ calls' = Append(calls, Call("vision", "start"))
          /\ pc' = "awaitVision"
          /\ UNCHANGED outcome
  /\ UNCHANGED << parserVars, visionVars, imageVars, reqs, rejection, weatherService, request, location, weatherData, reply,
                  recommendations >>

\* variant of LocationFound that takes the sentinel in any letter case
LocationFound_AnyCase(loc) ==
  toLowerCase(loc) # "none" /\ Len(loc) > 0 /\ weatherService

\* location !== "NONE" && location.length > 0 && this.weatherService
LocationFound(loc) == loc # "NONE" /\ Len(loc) > 0 /\ weatherService

\* variant of FinalPrompt that uses the weather-aware template whenever the
\* weather-aware flow runs
FinalPrompt_AlwaysWeather(text, wd) == buildWeatherAwarePrompt(text, wd)

\* step 3 of generateRecommendationsWithWeather: the prompt of the vision call
FinalPrompt(text, wd) ==
  IF wd.present THEN buildWeatherAwarePrompt(text, wd)
  ELSE buildSingleCallPrompt(text)

\* variant of LocationReturns that does not await the weather lookup before
\* it issues the vision call
LocationReturns_NoAwait(text) ==
  /\ pc = "awaitLocation"
  /\ location' = Trim(text)
  /\ prompt' = FinalPrompt(occasionText, weatherData)
  /\ IF LocationFound(Trim(text))
     THEN calls' = calls \o << Call("text", "end"), Call("weather", "start"),
                               Call("vision", "start") >>
     ELSE calls' = calls \o << Call("text", "end"), Call("vision", "start") >>
  /\ pc' = "awaitVision"
  /\ UNCHANGED << parserVars, visionVars, imageVars, reqs, called, rejection, weatherService, flow, imageBase64, occasionText, useWeather,
                  request, weatherData, reply, recommendations, outcome >>

\* callClaude(locationPrompt) resolves: steps 1 and 2 up to the next await
LocationReturns(text) ==
  /\ pc = "awaitLocation"
  /\ location' = Trim(text)
  /\ IF LocationFound(Trim(text))
     THEN /\ calls' = calls \o << Call("text", "end"), Call("weather", "start") >>
          /\ pc' = "awaitWeather"
          /\ UNCHANGED prompt
     ELSE /\ prompt' = FinalPrompt(occasionText, weatherData)
          /\ calls' = calls \o << Call("text", "end"), Call("vision", "start") >>
          /\ pc' = "awaitVision"
  /\ UNCHANGED << parserVars, visionVars, imageVars, reqs, called, rejection, weatherService, flow, imageBase64, occasionText, useWeather,
                  request, weatherData, reply, recommendations, outcome >>

\* variant of LocationThrows that falls back to the single-call prompt and
\* issues the vision call
LocationThrows_Degrades(e) ==
  /\ pc = "awaitLocation"
  /\ rejection' = e
  /\ prompt' = buildSingleCallPrompt(occasionText)
  /\ calls' = calls \o << Call("text", "fail"), Call("vision", "start") >>
  /\ pc' = "awaitVision"
  /\ UNCHANGED << parserVars, visionVars, imageVars, reqs, called, weatherService, flow, imageBase64, occasionText, useWeather,
                  request, location, weatherData, reply, recommendations, outcome >>

\* callClaude(locationPrompt) rejects: both catch blocks rethrow
LocationThrows(e) ==
  /\ pc = "awaitLocation"
  /\ rejection' = e
  /\ calls' = Append(calls, Call("text", "fail"))
  /\ outcome' = Thrown(handleError(handleError(e)))
  /\ pc' = "done"
  /\ UNCHANGED << parserVars, visionVars, imageVars, reqs, called, weatherService, flow, imageBase64, occasionText, useWeather,
                  request, location, weatherData, prompt, reply, recommendations >>

\* getCurrentWeather resolves
WeatherReturns(wd) ==
  /\ pc = "awaitWeather"
  /\ weatherData' = wd
  /\ prompt' = FinalPrompt(occasionText, wd)
  /\ calls' = calls \o << Call("weather", "end"), Call("vision", "start") >>
  /\ pc' = "awaitVision"
  /\ UNCHANGED << parserVars, visionVars, imageVars, reqs, called, rejection, weatherService, flow, imageBase64, occasionText, useWeather,
                  request, location, reply, recommendations, outcome >>

\* variant of WeatherThrows without the inner catch: the request fails
WeatherThrows_Propagates(e) ==
  /\ pc = "awaitWeather"
  /\ rejection' = e
  /\ calls' = Append(calls, Call("weather", "fail"))
  /\ outcome' = Thrown(handleError(handleError(e)))
  /\ pc' = "done"
  /\ UNCHANGED << parserVars, visionVars, imageVars, reqs, called, weatherService, flow, imageBase64, occasionText, useWeather,
                  request, location, weatherData, prompt, reply, recommendations >>

\* getCurrentWeather rejects: the inner catch logs a warning and goes on
WeatherThrows(e) ==
  /\ pc = "awaitWeather"
  /\ weatherData' = NoWeather
  /\ prompt' = FinalPrompt(occasionText, NoWeather)
  /\ calls' = calls \o << Call("weather", "fail"), Call("vision", "start") >>
  /\ pc' = "awaitVision"
  /\ UNCHANGED << parserVars, visionVars, imageVars, reqs, called, rejection, weatherService, flow, imageBase64, occasionText, useWeather,
                  request, location, reply, recommendations, outcome >>

\* variant of MergeWeather without the else branch
MergeWeather_NoFlag(response, wd) ==
  IF wd.present
  THEN [response EXCEPT !.weatherData = wd, !.weatherConsidered = JBool(TRUE)]
  ELSE response

\* "Add weather data to the response"
MergeWeather(response, wd) ==
  IF wd.present
  THEN [response EXCEPT !.weatherData = wd, !.weatherConsidered = JBool(TRUE)]
  ELSE [response EXCEPT !.weatherConsidered = JBool(FALSE)]

\* the response as it stands when validateResponse is called
Assemble(fl, parsed, wd) == IF fl = "weather" THEN MergeWeather(parsed, wd) ELSE parsed

\* what the caller gets once the reply is parsed: validateResponse decides
Conclude(response) ==
  IF validateResponse(response) = NoError THEN Returned(response)
  ELSE Thrown(handleError(validateResponse(response)))

\* callClaudeVision resolves: parse, merge, validate, return
VisionReturns(text) ==
  /\ pc = "awaitVision"
  /\ reply' = text
  /\ calls' = Append(calls, Call("vision", "end"))
  /\ LET parsed == parseSingleCallResponse(text)
     IN  IF parsed.ok
         THEN /\ recommendations' = Assemble(flow, parsed.value, weatherData)
              /\ outcome' = Conclude(Assemble(flow, parsed.value, weatherData))
         ELSE /\ recommendations' = NoResponse
              /\ outcome' = Thrown(handleError(parsed.error))
  /\ pc' = "done"
  /\ UNCHANGED << parserVars, visionVars, imageVars, reqs, called, rejection, weatherService, flow, imageBase64, occasionText, useWeather,
                  request, location, weatherData, prompt >>

\* variant of VisionThrows that issues the vision call again, up to three
\* times, before it gives up
VisionThrows_Retries(e) ==
  /\ pc = "awaitVision"
  /\ rejection' = e
  /\ IF Len(calls) < 8
     THEN /\ calls' = calls \o << Call("vision", "fail"), Call("vision", "start") >>
          /\ UNCHANGED << outcome, pc >>
     ELSE /\ calls' = Append(calls, Call("vision", "fail"))
          /\ outcome' = Thrown(handleError(e))
          /\ pc' = "done"
  /\ UNCHANGED << parserVars, visionVars, imageVars, reqs, called, weatherService, flow, imageBase64, occasionText, useWeather,
                  request, location, weatherData, prompt, reply, recommendations >>

\* callClaudeVision rejects
VisionThrows(e) ==
  /\ pc = "awaitVision"
  /\ rejection' = e
  /\ calls' = Append(calls, Call("vision", "fail"))
  /\ outcome' = Thrown(handleError(e))
  /\ pc' = "done"
  /\ UNCHANGED << parserVars, visionVars, imageVars, reqs, called, weatherService, flow, imageBase64, occasionText, useWeather,
                  request, location, weatherData, prompt, reply, recommendations >>

\* variant of GenerateRecommendations without the check of the items
GenerateRecommendations_NoItemsCheck(req) ==
  /\ pc = "idle"
  /\ called' = "legacy"
  /\ request' = req
  /\ IF ~Truthy(req.clothingAnalysis) \/ ~Truthy(req.occasionContext)
     THEN /\ outcome' = Thrown(Error("Both clothingAnalysis and occasionContext are required for recommendations"))
          /\ pc' = "done"
          /\ UNCHANGED << flow, prompt, calls >>
     ELSE IF ~Truthy(Get(req.occasionContext, "occasion"))
     THEN /\ outcome' = Thrown(Error("Occasion context must specify an occasion"))
          /\ pc' = "done"
          /\ UNCHANGED << flow, prompt, calls >>
     ELSE /\ flow' = "legacy"
          /\ prompt' = buildPrompt(req)
          /\ calls' = Append(calls, Call("text", "start"))
          /\ pc' = "awaitText"
          /\ UNCHANGED outcome
  /\ UNCHANGED << parserVars, visionVars, imageVars, reqs, rejection, weatherService, imageBase64, occasionText, useWeather,
                  location, weatherData, reply, recommendations >>

\* generateRecommendations (legacy), up to its await
GenerateRecommendations(req) ==
  /\ pc = "idle"
  /\ called' = "legacy"
  /\ request' = req
  /\ IF ~Truthy(req.clothingAnalysis) \/ ~Truthy(req.occasionContext)
     THEN /\ outcome' = Thrown(Error("Both clothingAnalysis and occasionContext are required for recommendations"))
          /\ pc' = "done"
          /\ UNCHANGED << flow, prompt, calls >>
     ELSE IF \/ ~Truthy(Get(req.clothingAnalysis, "items"))
             \/ Len(Get(req.clothingAnalysis, "items").v) = 0
     THEN /\ outcome' = Thrown(Error("Clothing analysis must contain at least one item"))
          /\ pc' = "done"
          /\ UNCHANGED << flow, prompt, calls >>
     ELSE IF ~Truthy(Get(req.occasionContext, "occasion"))
     THEN /\ outcome' = Thrown(Error("Occasion context must specify an occasion"))
          /\ pc' = "done"
          /\ UNCHANGED << flow, prompt, calls >>
     ELSE /\ flow' = "legacy"
          /\ prompt' = buildPrompt(req)
          /\ calls' = Append(calls, Call("text", "start"))
          /\ pc' = "awaitText"
          /\ UNCHANGED outcome
  /\ UNCHANGED << parserVars, visionVars, imageVars, reqs, rejection, weatherService, imageBase64, occasionText, useWeather,
                  location, weatherData, reply, recommendations >>

\* callClaude(prompt) resolves in the legacy flow
TextReturns(text) ==
  /\ pc = "awaitText"
  /\ reply' = text
  /\ calls' = Append(calls, Call("text", "end"))
  /\ LET parsed == parseResponse(text, request.occasionContext)
     IN  IF parsed.ok
         THEN /\ recommendations' = parsed.value
              /\ outcome' = Conclude(parsed.value)
         ELSE /\ recommendations' = NoResponse
              /\ outcome' = Thrown(handleError(parsed.error))
  /\ pc' = "done"
  /\ UNCHANGED << parserVars, visionVars, imageVars, reqs, called, rejection, weatherService, flow, imageBase64, occasionText, useWeather,
                  request, location, weatherData, prompt >>

\* callClaude(prompt) rejects in the legacy flow
TextThrows(e) ==
  /\ pc = "awaitText"
  /\ rejection' = e
  /\ calls' = Append(calls, Call("text", "fail"))
  /\ outcome' = Thrown(handleError(e))
  /\ pc' = "done"
  /\ UNCHANGED << parserVars, visionVars, imageVars, reqs, called, weatherService, flow, imageBase64, occasionText, useWeather,
                  request, location, weatherData, prompt, reply, recommendations >>

Next ==
  \/ \E img \in Images, text \in OccasionTexts, uw \in BOOLEAN :
       GenerateRecommendationsWithImage(img, text, uw)
  \/ \E text \in LocationReplies : LocationReturns(text)
  \/ \E e \in ThrownValues : LocationThrows(e)
  \/ \E wd \in WeatherSnapshots : WeatherReturns(wd)
  \/ \E e \in ThrownValues : WeatherThrows(e)
  \/ \E text \in Replies : VisionReturns(text)
  \/ \E e \in ThrownValues : VisionThrows(e)
  \/ \E req \in Requests : GenerateRecommendations(req)
  \/ \E text \in Replies : TextReturns(text)
  \/ \E e \in ThrownValues : TextThrows(e)

Spec == Init /\ [][Next]_vars

\* the engine when every collaborator call that is awaited eventually
\* resolves or rejects
FairSpec ==
  /\ Spec
  /\ WF_vars(\/ \E text \in LocationReplies : LocationReturns(text)
             \/ \E e \in ThrownValues : LocationThrows(e)
             \/ \E wd \in WeatherSnapshots : WeatherReturns(wd)
             \/ \E e \in ThrownValues : WeatherThrows(e)
             \/ \E text \in Replies : VisionReturns(text)
             \/ \E e \in ThrownValues : VisionThrows(e)
             \/ \E text \in Replies : TextReturns(text)
             \/ \E e \in ThrownValues : TextThrows(e))

----------------------------------------------------------------------------
(* ContextParser: one call of parseOccasion.                               *)

\* occasion texts handed to parseOccasion
Inputs ==
  { "wedding in Japan", "WEDDING IN JAPAN", "job interview tomorrow",
    "casual workout", "i prefer casual clothes", "casual party",
    "party in new york", "Temple visit in Thailand",
    "formal dinner, hot and humid", "", " \t", "picnic",
    "business lunch at the beach", "memorial gala",
    "trip to Paris, France", "outdoor hiking", "sunday brunch",
    "romantic evening", "charity ball", "pool day" }

\* "formality" in the model's reply
FormalityValues ==
  { JUndef, JNull, JNum(5), JStr("formal"), JStr("athletic"),
    JStr("business-casual"), JStr("Formal"), JStr("fancy"),
    JArr(<< JStr("formal") >>) }

\* "occasion" and "location" in the model's reply
AIOccasionValues == { JUndef, JStr(""), JStr("wedding") }
AILocationValues == { JUndef, JNull, JStr("Japan") }
\* "tone" in the model's reply
AIToneValues == { JUndef, JNull, JStr("elegant"), JArr(<< JStr("elegant") >>) }

\* "weatherConsideration" and "culturalNotes", and "preferences", in the
\* model's reply
AIOptionalValues == { JUndef, JNull, JStr(""), JStr("hot") }
AIListValues ==
  { JUndef, JNull, JStr("comfy"), JArr(<< >>), JArr(<< JStr("comfy") >>) }

\* replies of the LLM to the prompt of parseOccasionWithAI
AIReplies ==
  { Render(Opt("occasion", o) \o Opt("location", l) \o Opt("formality", f)
           \o Opt("tone", t)) :
      o \in AIOccasionValues, l \in AILocationValues, f \in FormalityValues,
      t \in AIToneValues }
  \cup
  { << W >> \o Render(<< Member("occasion", JStr("wedding")),
                        Member("formality", JStr("formal")) >>) \o << W >>,
    << >>, << W >>, << RB, W, LB >>, << LB, W >>, << LB, W, RB >>,
    Render(<< Member("formality", JStr("formal")) >>)
      \o Render(<< Member("formality", JStr("formal")) >>),
    Render(<< Member("formality", JStr("fancy")) >>) \o << W, RB >> }
  \cup
  { Render(<< Member("formality", JStr("formal")), Member("location", JStr("")) >>
           \o Opt("weatherConsideration", w) \o Opt("culturalNotes", c)
           \o Opt("preferences", p)) :
      w \in AIOptionalValues, c \in AIOptionalValues, p \in AIListValues }

\* new ContextParser(claudeService?, useAI = true), beside an engine on
\* which nothing is called
ParserInit ==
  /\ weatherService = FALSE
  /\ EngineIdle
  /\ VisionIdle
  /\ ImageIdle
  /\ reqs = << >>
  /\ claudeService \in BOOLEAN
  /\ \E flag \in BOOLEAN : useAI = (flag /\ claudeService)
  /\ cpPc = "idle"
  /\ input = ""
  /\ aiAnswer = NoAnswer
  /\ context = NoContext
  /\ history = << >>

\* variant of ParseOccasion in which the parser remembers the location of
\* the call before and uses it when the text names none
ParseOccasion_Remembers(inp) ==
  /\ cpPc = "idle"
  /\ input' = inp
  /\ IF useAI /\ claudeService
     THEN /\ cpPc' = "awaitAI"
          /\ UNCHANGED context
     ELSE /\ cpPc' = "done"
          /\ context' = ContextReturned(
               [parseOccasionKeywordBased(inp) EXCEPT
                  !.location = IF @ = JUndef /\ Len(history) > 0
                               THEN history[Len(history)].context.value.location
                               ELSE @])
  /\ UNCHANGED << engineVars, visionVars, imageVars, reqs, claudeService, useAI, aiAnswer, history >>

\* parseOccasion, up to the await of the LLM call when the AI path is taken
ParseOccasion(inp) ==
  /\ cpPc = "idle"
  /\ input' = inp
  /\ IF useAI /\ claudeService
     THEN /\ cpPc' = "awaitAI"
          /\ UNCHANGED context
     ELSE /\ cpPc' = "done"
          /\ context' = ContextReturned(parseOccasionKeywordBased(inp))
  /\ UNCHANGED << engineVars, visionVars, imageVars, reqs, claudeService, useAI, aiAnswer, history >>

\* callClaude resolves
AIReturns(text) ==
  /\ cpPc = "awaitAI"
  /\ aiAnswer' = Answered(text)
  /\ context' = AfterAI(input, parseOccasionWithAI(input, text))
  /\ cpPc' = "done"
  /\ UNCHANGED << engineVars, visionVars, imageVars, reqs, claudeService, useAI, input, history >>

\* callClaude rejects
AIThrows(e) ==
  /\ cpPc = "awaitAI"
  /\ aiAnswer' = Rejected(e)
  /\ context' = AfterAI(input, Throw(e))
  /\ cpPc' = "done"
  /\ UNCHANGED << engineVars, visionVars, imageVars, reqs, claudeService, useAI, input, history >>

ParserNext ==
  \/ \E inp \in Inputs : ParseOccasion(inp)
  \/ \E text \in AIReplies : AIReturns(text)
  \/ \E e \in ThrownValues : AIThrows(e)

ParserSpec == ParserInit /\ [][ParserNext]_vars

----------------------------------------------------------------------------
(* ContextParser: several calls on one parser.  The parser keeps no state  *)
(* but its two fields; input, the reply and the result are locals of the   *)
(* call.  When the call has settled the caller may call again.             *)

\* the call has settled and parseOccasion is called anew
CallAgain ==
  /\ cpPc = "done"
  /\ Len(history) < MaxCalls - 1
  /\ history' = Append(history, [input |-> input, answer |-> aiAnswer,
                                 context |-> context])
  /\ cpPc' = "idle"
  /\ input' = ""
  /\ aiAnswer' = NoAnswer
  /\ context' = NoContext
  /\ UNCHANGED << engineVars, visionVars, imageVars, reqs, claudeService, useAI >>

\* occasion texts and LLM answers of the repeated calls
RepeatedInputs == { "wedding in Japan", "picnic", "Temple visit in Thailand" }
RepeatedReplies ==
  { Render(<< Member("occasion", JStr("wedding")), Member("location", JStr("Japan")),
              Member("formality", JStr("formal")) >>),
    << LB, W, RB >> }

KeywordNext ==
  \/ \E inp \in RepeatedInputs : ParseOccasion(inp)
  \/ \E text \in RepeatedReplies : AIReturns(text)
  \/ AIThrows(Error("Claude API failed"))
  \/ CallAgain

KeywordSpec == ParserInit /\ [][KeywordNext]_vars

----------------------------------------------------------------------------
(* VisionServiceImpl (services/imageSearch.ts): analyzeClothing.           *)

Digits == "0123456789"

\* String(value): a string as it is, a number in decimal, an array as its
\* elements joined by commas, an object as "[object Object]"
RECURSIVE String(_)
String(x) ==
  CASE x.t = "string"    -> x.v
    [] x.t = "number"    -> CharAt(Digits, x.v[1] + 1)
    [] x.t = "boolean"   -> IF x.v[1] THEN "true" ELSE "false"
    [] x.t = "null"      -> "null"
    [] x.t = "undefined" -> "undefined"
    [] x.t = "array"     ->
         IF Len(x.v) = 0 THEN ""
         ELSE IF Len(x.v) = 1
         THEN (IF x.v[1].t \in {"null", "undefined"} THEN "" ELSE String(x.v[1]))
         ELSE (IF x.v[1].t \in {"null", "undefined"} THEN "" ELSE String(x.v[1]))
              \o "," \o String(JArr(Tail(x.v)))
    [] OTHER             -> "[object Object]"

\* item.type, item.color, ... : a property of null or undefined cannot be
\* read; a property of any other value that is no object reads undefined
Unreadable(item) == item.t \in {"null", "undefined"}

\* !item.type || !item.color || !item.style
MissingRequired(item) ==
  \/ ~Truthy(Get(item, "type"))
  \/ ~Truthy(Get(item, "color"))
  \/ ~Truthy(Get(item, "style"))

\* if (item.material) cleanedItem.material = String(item.material).trim()
Optional(x) == IF Truthy(x) THEN JStr(Trim(String(x))) ELSE JUndef

\* the callback of parsed.items.map
cleanedItem(item) ==
  [type      |-> JStr(Trim(String(Get(item, "type")))),
   color     |-> JStr(Trim(String(Get(item, "color")))),
   style     |-> JStr(Trim(String(Get(item, "style")))),
   material  |-> Optional(Get(item, "material")),
   condition |-> Optional(Get(item, "condition"))]

\* VisionServiceImpl.parseResponse
parseVisionResponse(response) ==
  LET jsonMatch == JsonMatch(response)
      parsed    == jsonMatch.text
      items     == Field(parsed, "items")
      palette   == Field(parsed, "colorPalette")
      Failed(m) == Throw(Error("Failed to parse Vision API response: " \o m))
  IN  IF ~jsonMatch.found
      THEN Failed("No JSON object found in Claude response")
      ELSE IF ~JSONValid(parsed) THEN Failed("SyntaxError")
      ELSE IF ~IsArray(items)
      THEN Failed("Invalid response structure: 'items' must be an array")
      ELSE IF ~IsString(Field(parsed, "overallStyle"))
      THEN Failed("Invalid response structure: 'overallStyle' must be a string")
      ELSE IF ~IsArray(palette)
      THEN Failed("Invalid response structure: 'colorPalette' must be an array")
      ELSE IF ~IsString(Field(parsed, "summary"))
      THEN Failed("Invalid response structure: 'summary' must be a string")
      ELSE IF \E i \in 1..Len(items.v) :
                /\ \A j \in 1..(i - 1) : ~Unreadable(items.v[j]) /\ ~MissingRequired(items.v[j])
                /\ Unreadable(items.v[i])
      THEN Failed("TypeError")
      ELSE IF \E i \in 1..Len(items.v) : MissingRequired(items.v[i])
      THEN Failed("Each clothing item must have type, color, and style")
      ELSE Return(
        [items        |-> [i \in 1..Len(items.v) |-> cleanedItem(items.v[i])],
         overallStyle |-> JStr(Trim(Field(parsed, "overallStyle").v)),
         colorPalette |-> JArr([i \in 1..Len(palette.v) |-> JStr(Trim(String(palette.v[i])))]),
         summary      |-> JStr(Trim(Field(parsed, "summary").v))])

\* VisionServiceImpl.handleError
visionHandleError(error) ==
  IF error.kind = "Error" THEN error
  ELSE IF error.kind = "object" THEN Error(error.message)
  ELSE Error("Vision service error: " \o error.message)

\* values the model may give for a field of a clothing item
ItemFieldValues ==
  { JUndef, JNull, JStr(""), JStr(" "), JStr(" shirt\t"), JStr("shirt"),
    JNum(5), JNum(0), JArr(<< >>), JArr(<< JStr("a"), JNull >>), JBool(TRUE),
    JObj(<< >>) }

\* a clothing item of the reply
Item(type, color, style, material, condition) ==
  JObj(SelectSeq(<< << "type", type >>, << "color", color >>, << "style", style >>,
                    << "material", material >>, << "condition", condition >> >>,
                 LAMBDA pair : pair[2] # JUndef))

GoodItem == Item(JStr("shirt"), JStr("blue"), JStr("casual"), JUndef, JUndef)

\* the entries of "items" in replies of the model
ItemValues ==
  { Item(t, JStr(" blue "), JStr("casual"), m, JUndef) :
      t \in ItemFieldValues, m \in ItemFieldValues }
  \cup { Item(JStr("shirt"), c, s, JUndef, m) :
          c \in {JUndef, JStr(" "), JStr("blue")}, s \in {JNull, JStr("casual")},
          m \in {JStr(""), JStr(" "), JStr("worn")} }
  \cup { JNull, JStr("shirt"), JNum(5) }

\* a reply with the given members of the analysis
VisionReply(items, overallStyle, palette, summary) ==
  Render(Opt("items", items) \o Opt("overallStyle", overallStyle)
         \o Opt("colorPalette", palette) \o Opt("summary", summary))

\* replies of the model to the prompt of analyzeClothing
VisionReplies ==
  { VisionReply(JArr(<< item >>), JStr(" casual "), JArr(<< JStr(" blue"), JNum(5) >>),
                JStr("A shirt. ")) : item \in ItemValues }
  \cup
  { VisionReply(JArr(<< GoodItem, item >>), JStr("casual"), JArr(<< >>), JStr(""))
      : item \in {GoodItem, JNull, Item(JStr(" "), JStr("blue"), JStr("casual"), JUndef, JUndef)} }
  \cup
  { VisionReply(JArr(<< >>), JStr("casual"), JArr(<< >>), JStr("none")),
    VisionReply(JUndef, JStr("casual"), JArr(<< >>), JStr("none")),
    VisionReply(JObj(<< >>), JStr("casual"), JArr(<< >>), JStr("none")),
    VisionReply(JArr(<< GoodItem >>), JNull, JArr(<< >>), JStr("none")),
    VisionReply(JArr(<< GoodItem >>), JStr("casual"), JStr("blue"), JStr("none")),
    VisionReply(JArr(<< GoodItem >>), JStr("casual"), JArr(<< >>), JUndef),
    << W >> \o VisionReply(JArr(<< GoodItem >>), JStr("casual"), JArr(<< >>), JStr("none")) \o << W >>,
    << >>, << W >>, << LB, W, RB >> }

\* new VisionServiceImpl(claudeService), beside an engine and a parser on
\* which nothing is called
VisionInit ==
  /\ weatherService = FALSE
  /\ EngineIdle
  /\ ParserIdle
  /\ VisionIdle
  /\ ImageIdle
  /\ reqs = << >>

\* analyzeClothing, up to the await of callClaudeVision
AnalyzeClothing(img) ==
  /\ vsPc = "idle"
  /\ vsImage' = img
  /\ IF Blank(img)
     THEN /\ analysis' = Thrown(Error("Image data (base64) is required for analysis"))
          /\ vsPc' = "done"
     ELSE /\ vsPc' = "awaitVision"
          /\ UNCHANGED analysis
  /\ UNCHANGED << engineVars, parserVars, imageVars, reqs, vsReply >>

\* callClaudeVision resolves: parseResponse, then return or rethrow
AnalysisReturns(text) ==
  /\ vsPc = "awaitVision"
  /\ vsReply' = text
  /\ LET parsed == parseVisionResponse(text)
     IN  analysis' = IF parsed.ok THEN Returned(parsed.value)
                     ELSE Thrown(visionHandleError(parsed.error))
  /\ vsPc' = "done"
  /\ UNCHANGED << engineVars, parserVars, imageVars, reqs, vsImage >>

\* callClaudeVision rejects
AnalysisThrows(e) ==
  /\ vsPc = "awaitVision"
  /\ analysis' = Thrown(visionHandleError(e))
  /\ vsPc' = "done"
  /\ UNCHANGED << engineVars, parserVars, imageVars, reqs, vsImage, vsReply >>

VisionNext ==
  \/ \E img \in Images : AnalyzeClothing(img)
  \/ \E text \in VisionReplies : AnalysisReturns(text)
  \/ \E e \in ThrownValues : AnalysisThrows(e)

VisionSpec == VisionInit /\ [][VisionNext]_vars

----------------------------------------------------------------------------
(* UnsplashImageSearch (src/services/imageSearch.ts).  A description is    *)
(* the sequence of its UTF-16 code units: letters, spaces, and the two     *)
(* halves of the surrogate pair of one emoji, written "^" (the high half)   *)
(* and "$" (the low half).                                                 *)

MaxImages == 2

PlaceholderTextLimit == 50

\* encodeURIComponent: unreserved characters stay, a space and a surrogate
\* pair become their UTF-8 escapes, a lone surrogate throws
encodeURIComponent(s) ==
  LET High == "^"
      Low  == "$"
      lone(i) ==
        \/ CharAt(s, i) = High /\ (i = Len(s) \/ CharAt(s, i + 1) # Low)
        \/ CharAt(s, i) = Low /\ (i = 1 \/ CharAt(s, i - 1) # High)
      escape(i) ==
        LET c == CharAt(s, i)
        IN  IF c = High THEN "%F0%9F%91%97"
            ELSE IF c = Low THEN ""
            ELSE IF c = " " THEN "%20" ELSE c
      RECURSIVE escaped(_, _)
      escaped(lo, hi) ==
        IF lo > hi THEN ""
        ELSE IF lo = hi THEN escape(lo)
        ELSE escaped(lo, (lo + hi) \div 2) \o escaped((lo + hi) \div 2 + 1, hi)
  IN  IF \E i \in 1..Len(s) : lone(i) THEN Throw(Error("URIError: URI malformed"))
      ELSE Return(escaped(1, Len(s)))

buildFashionQuery(description) ==
  LET lowerDesc == toLowerCase(description)
      query == IF /\ ~includes(lowerDesc, "outfit")
                  /\ ~includes(lowerDesc, "fashion")
                  /\ ~includes(lowerDesc, "wearing")
                  /\ ~includes(lowerDesc, "style")
               THEN "person wearing " \o description
               ELSE description
  IN  IF ~includes(lowerDesc, "portrait") THEN query \o " fashion portrait"
      ELSE query

\* getPlaceholderImages(description, 1)
getPlaceholderImages(description) ==
  LET placeholderText ==
        encodeURIComponent(SubSeq(description, 1,
          IF Len(description) < PlaceholderTextLimit THEN Len(description)
          ELSE PlaceholderTextLimit))
  IN  IF ~placeholderText.ok THEN placeholderText
      ELSE Return(<< [url |-> "https://via.placeholder.com/600x800/2c3e50/ffffff?text="
                              \o placeholderText.value,
                      thumbnailUrl |-> "https://via.placeholder.com/300x400/2c3e50/ffffff?text="
                              \o placeholderText.value,
                      description |-> description,
                      photographer |-> JUndef,
                      source |-> "generated"] >>)

\* what fetch and response.json() can give one lookup; "none" is the lookup
\* that never reaches fetch
FetchAnswers ==
  LET photo(n, alt) == [urls |-> TRUE, user |-> TRUE,
                        regular |-> "https://images.unsplash.com/photo-" \o n,
                        small |-> "https://images.unsplash.com/thumb-" \o n,
                        alt_description |-> alt, name |-> "Ada"]
  IN  { [kind |-> k, results |-> << >>] : k \in {"rejects", "notOk", "noJson", "noResults"} }
      \cup { [kind |-> "json", results |-> r] :
               r \in { << >>,
                       << photo("1", JNull) >>,
                       << photo("2", JStr("a red dress")), photo("1", JNull) >>,
                       << [photo("3", JNull) EXCEPT !.urls = FALSE] >>,
                       << [photo("3", JNull) EXCEPT !.user = FALSE] >> } }

\* the promise of searchOutfitImages(description, 1), settled with what its
\* fetch gave it; every failure of the lookup ends in getPlaceholderImages
searchOutfitImages(description, answer) ==
  LET done(r) == IF r.ok THEN [state |-> "fulfilled", value |-> r.value,
                               error |-> NoError, answer |-> answer]
                 ELSE [state |-> "rejected", value |-> << >>,
                       error |-> r.error, answer |-> answer]
  IN  IF answer.kind = "json" /\ answer.results # << >>
      THEN LET result == answer.results[1]
           IN  IF ~result.urls \/ ~result.user
               THEN done(getPlaceholderImages(description))
               ELSE done(Return(<< [url |-> result.regular,
                                    thumbnailUrl |-> result.small,
                                    description |-> Or(result.alt_description, JStr(description)).v,
                                    photographer |-> JStr(result.name),
                                    source |-> "unsplash"] >>))
      ELSE done(getPlaceholderImages(description))

\* await Promise.all(imagePromises), then map(images => images[0]) and
\* filter(Boolean): rejected by the first rejection, fulfilled by the last
\* fulfilment
promiseAll(promises) ==
  LET rejected == {i \in 1..Len(promises) : promises[i].state = "rejected"}
      RECURSIVE firsts(_)
      firsts(i) == IF i > Len(promises) THEN << >>
                   ELSE (IF promises[i].value = << >> THEN << >>
                         ELSE << promises[i].value[1] >>) \o firsts(i + 1)
  IN  IF rejected # {}
      THEN [kind |-> "thrown", value |-> << >>,
            error |-> promises[CHOOSE i \in rejected : \A j \in rejected : i <= j].error]
      ELSE IF \A i \in 1..Len(promises) : promises[i].state = "fulfilled"
      THEN [kind |-> "returned", value |-> firsts(1), error |-> NoError]
      ELSE [kind |-> "none", value |-> << >>, error |-> NoError]

RecommendationLists ==
  LET Descriptions == { "red dress", "portrait style outfit",
                        "long green evening gown with a thin silver belt ^$",
                        "navy blazer with grey trousers and brown loafers ^$" }
  IN  UNION { [1..n -> Descriptions] : n \in 0..MaxImages }

\* new UnsplashImageSearch(key), beside an engine, a parser and a vision
\* service on which nothing is called
ImageInit ==
  /\ weatherService = FALSE
  /\ EngineIdle
  /\ ParserIdle
  /\ VisionIdle
  /\ unsplashAccessKey \in BOOLEAN
  /\ imgPc = "idle"
  /\ imgRecs = << >>
  /\ lookups = << >>
  /\ images = [kind |-> "none", value |-> << >>, error |-> NoError]
  /\ reqs = << >>

\* getImagesForRecommendations up to the await: every searchOutfitImages
\* call runs until its fetch, or to its end when it never fetches
GetImagesForRecommendations(recs) ==
  /\ imgPc = "idle"
  /\ imgRecs' = recs
  /\ lookups' = [i \in 1..Len(recs) |->
       IF ~unsplashAccessKey \/ ~encodeURIComponent(buildFashionQuery(recs[i])).ok
       THEN searchOutfitImages(recs[i], [kind |-> "none", results |-> << >>])
       ELSE [state |-> "pending", value |-> << >>, error |-> NoError,
             answer |-> [kind |-> "none", results |-> << >>]]]
  /\ images' = promiseAll(lookups')
  /\ imgPc' = IF images'.kind = "none" THEN "awaitAll" ELSE "done"
  /\ UNCHANGED << engineVars, parserVars, visionVars, reqs, unsplashAccessKey >>

\* the fetch of lookup i settles; the caller resumes when Promise.all does
LookupCompletes(i, answer) ==
  /\ i \in 1..Len(lookups)
  /\ lookups[i].state = "pending"
  /\ lookups' = [lookups EXCEPT ![i] = searchOutfitImages(imgRecs[i], answer)]
  /\ IF imgPc = "awaitAll"
     THEN /\ images' = promiseAll(lookups')
          /\ imgPc' = IF images'.kind = "none" THEN "awaitAll" ELSE "done"
     ELSE UNCHANGED << images, imgPc >>
  /\ UNCHANGED << engineVars, parserVars, visionVars, reqs, unsplashAccessKey, imgRecs >>

ImageNext ==
  \/ \E recs \in RecommendationLists : GetImagesForRecommendations(recs)
  \/ \E i \in 1..MaxImages, answer \in FetchAnswers : LookupCompletes(i, answer)

ImageSpec == ImageInit /\ [][ImageNext]_vars

----------------------------------------------------------------------------
(* Two generateRecommendationsWithImage calls in flight on one engine.     *)
(* reqs[r] holds the parameters and locals of call r, and in `got` the     *)
(* collaborator answers it received; the engine's fields are shared.       *)

\* new RecommenderEngine(claudeService, weatherService?) and two callers
PairInit ==
  /\ weatherService \in BOOLEAN
  /\ EngineIdle
  /\ ParserIdle
  /\ VisionIdle
  /\ ImageIdle
  /\ reqs = [r \in 1..2 |->
       [pc |-> "idle", imageBase64 |-> "", occasionText |-> "",
        useWeather |-> FALSE, flow |-> "none", location |-> "",
        weatherData |-> NoWeather, prompt |-> NoPrompt, got |-> << >>,
        outcome |-> NoOutcome]]

\* generateRecommendationsWithImage of call r, up to its first await
Begin(r, img, text, uw) ==
  /\ reqs[r].pc = "idle"
  /\ reqs' = [reqs EXCEPT ![r] =
       LET given == [@ EXCEPT !.imageBase64 = img, !.occasionText = text,
                              !.useWeather = uw]
       IN  IF Blank(img)
           THEN [given EXCEPT !.pc = "done",
                   !.outcome = Thrown(Error("Image data (base64) is required"))]
           ELSE IF Blank(text)
           THEN [given EXCEPT !.pc = "done",
                   !.outcome = Thrown(Error("Occasion description is required"))]
           ELSE IF SelectFlow(uw) = "weather"
           THEN [given EXCEPT !.flow = "weather", !.pc = "awaitLocation",
                   !.prompt = locationPrompt(text)]
           ELSE [given EXCEPT !.flow = "single", !.pc = "awaitVision",
                   !.prompt = buildSingleCallPrompt(text)]]
  /\ UNCHANGED << engineVars, parserVars, visionVars, imageVars >>

\* callClaude(locationPrompt) of call r resolves or rejects
LocationSettles(r, answer) ==
  /\ reqs[r].pc = "awaitLocation"
  /\ reqs' = [reqs EXCEPT ![r] =
       LET heard == [@ EXCEPT !.got = Append(@, [svc |-> "text", answer |-> answer])]
       IN  IF ~answer.ok
           THEN [heard EXCEPT !.pc = "done",
                   !.outcome = Thrown(handleError(handleError(answer.error)))]
           ELSE IF LocationFound(Trim(answer.value))
           THEN [heard EXCEPT !.location = Trim(answer.value), !.pc = "awaitWeather"]
           ELSE [heard EXCEPT !.location = Trim(answer.value), !.pc = "awaitVision",
                   !.prompt = FinalPrompt(heard.occasionText, heard.weatherData)]]
  /\ UNCHANGED << engineVars, parserVars, visionVars, imageVars >>

\* variant of WeatherSettles that keeps the weather data in a field of the
\* engine, which every call in flight reads
WeatherSettles_SharedField(r, answer) ==
  /\ reqs[r].pc = "awaitWeather"
  /\ reqs' = [q \in 1..2 |->
       LET wd == IF answer.ok THEN answer.value ELSE NoWeather
       IN  IF q = r
           THEN [reqs[q] EXCEPT
                   !.got = Append(@, [svc |-> "weather", answer |-> answer]),
                   !.weatherData = wd,
                   !.prompt = FinalPrompt(reqs[q].occasionText, wd),
                   !.pc = "awaitVision"]
           ELSE [reqs[q] EXCEPT !.weatherData = wd]]
  /\ UNCHANGED << engineVars, parserVars, visionVars, imageVars >>

\* getCurrentWeather of call r resolves, or rejects into the inner catch
WeatherSettles(r, answer) ==
  /\ reqs[r].pc = "awaitWeather"
  /\ reqs' = [reqs EXCEPT ![r] =
       LET wd == IF answer.ok THEN answer.value ELSE NoWeather
       IN  [@ EXCEPT !.got = Append(@, [svc |-> "weather", answer |-> answer]),
                     !.weatherData = wd,
                     !.prompt = FinalPrompt(reqs[r].occasionText, wd),
                     !.pc = "awaitVision"]]
  /\ UNCHANGED << engineVars, parserVars, visionVars, imageVars >>

\* callClaudeVision of call r resolves or rejects
VisionSettles(r, answer) ==
  /\ reqs[r].pc = "awaitVision"
  /\ reqs' = [reqs EXCEPT ![r] =
       LET heard  == [@ EXCEPT !.got = Append(@, [svc |-> "vision", answer |-> answer]),
                               !.pc = "done"]
           parsed == parseSingleCallResponse(answer.value)
       IN  IF ~answer.ok
           THEN [heard EXCEPT !.outcome = Thrown(handleError(answer.error))]
           ELSE IF ~parsed.ok
           THEN [heard EXCEPT !.outcome = Thrown(handleError(parsed.error))]
           ELSE [heard EXCEPT !.outcome =
                   Conclude(Assemble(heard.flow, parsed.value, heard.weatherData))]]
  /\ UNCHANGED << engineVars, parserVars, visionVars, imageVars >>

PairNext ==
  \/ \E r \in 1..2, img \in {"", "iVBORw0KGgo="},
        text \in {"", " wedding in Tokyo "}, uw \in BOOLEAN :
       Begin(r, img, text, uw)
  \/ \E r \in 1..2, answer \in { Return("NONE"), Return(" Tokyo, Japan "),
                                 Throw(Error("Claude API failed")) } :
       LocationSettles(r, answer)
  \/ \E r \in 1..2, answer \in { Return(wd) : wd \in WeatherSnapshots }
                               \cup { Throw(Error("Weather API error")) } :
       WeatherSettles(r, answer)
  \/ \E r \in 1..2, answer \in { Return(Render(GoodCore)), Return(<< W >>),
                                 Throw(Error("Claude API failed")) } :
       VisionSettles(r, answer)

PairSpec == PairInit /\ [][PairNext]_vars

----------------------------------------------------------------------------
(* Vocabulary of the properties, stated on the texts and the call history  *)
(* themselves and not through the operators that model the code.           *)

\* s is empty or holds whitespace only
AllWhitespace(s) == \A i \in 1..Len(s) : CharAt(s, i) \in Whitespace

\* x is a string with a character that is no whitespace
NonBlankString(x) ==
  /\ x.t = "string"
  /\ \E i \in 1..Len(x.v) : CharAt(x.v, i) \notin Whitespace

\* the text has a "{" with a "}" somewhere after it
HasSpan(text) ==
  \E i \in 1..Len(text) : \E j \in (i + 1)..Len(text) :
    text[i].k = "{" /\ text[j].k = "}"

\* from its first "{" to its last "}" the text is one JSON object
Decodable(text) ==
  /\ HasSpan(text)
  /\ \A i \in 1..Len(text) : \A j \in 1..Len(text) :
       ( /\ text[i].k = "{" /\ \A h \in 1..(i - 1) : text[h].k # "{"
         /\ text[j].k = "}" /\ \A h \in (j + 1)..Len(text) : text[h].k # "}" )
       => \A h \in (i + 1)..(j - 1) : text[h].k = "member"

\* the value the decoded object of the text has for a key
ValueOf(text, key) ==
  LET at == {i \in 1..Len(text) : text[i].k = "member" /\ text[i].key = key}
  IN  IF at = {} THEN JUndef
      ELSE text[CHOOSE i \in at : \A j \in at : j <= i].val

\* how many calls of a collaborator were started
Started(svc) == Cardinality({i \in 1..Len(calls) : calls[i] = Call(svc, "start")})

\* the request was answered by the model: the last LLM call resolved
ReplyDelivered ==
  \/ flow \in {"single", "weather"} /\ \E i \in 1..Len(calls) : calls[i] = Call("vision", "end")
  \/ flow = "legacy" /\ \E i \in 1..Len(calls) : calls[i] = Call("text", "end")

\* the reply can be used as it stands: a decodable object with a non-blank
\* occasion and summary and at least one recommendation, all of them
\* non-blank strings
UsableReply(text) ==
  /\ Decodable(text)
  /\ NonBlankString(ValueOf(text, "occasion"))
  /\ NonBlankString(ValueOf(text, "summary"))
  /\ ValueOf(text, "recommendations").t = "array"
  /\ Len(ValueOf(text, "recommendations").v) >= 1
  /\ \A i \in 1..Len(ValueOf(text, "recommendations").v) :
       NonBlankString(ValueOf(text, "recommendations").v[i])

----------------------------------------------------------------------------
(* Properties of ContextParser, checked under ParserSpec.                  *)

\* C1: whatever the occasion text and whatever the LLM does (any reply, or a
\* rejection), parseOccasion returns and does not throw, the formality of the
\* context it returns is one of casual, business-casual, formal, athletic,
\* and rawInput is the input string itself.
C1_ParseOccasionTotal ==
  cpPc = "done" =>
    /\ context.kind = "returned"
    /\ context.value.formality.t = "string"
    /\ context.value.formality.v \in {"casual", "business-casual", "formal", "athletic"}
    /\ context.value.rawInput = JStr(input)

\* C1 witness: the AI path answered with a formality outside the enumeration
\* and the call returned with casual
C1_Witness ==
  /\ cpPc = "done"
  /\ aiAnswer.kind = "text"
  /\ Decodable(aiAnswer.text)
  /\ ValueOf(aiAnswer.text, "formality") = JStr("fancy")
  /\ input = "WEDDING IN JAPAN"
  /\ context.kind = "returned"
  /\ context.value.formality = JStr("casual")

\* the AI path of the call failed: the LLM call rejected, or its reply has no
\* {...} span, or the span is not valid JSON
AIPathFailed ==
  \/ aiAnswer.kind = "thrown"
  \/ aiAnswer.kind = "text" /\ ~Decodable(aiAnswer.text)

\* C2: when the AI path fails, parseOccasion returns what the keyword path
\* returns for the same input, and nothing is thrown to the caller.
C2_FallbackIsKeywordPath ==
  (cpPc = "done" /\ AIPathFailed) =>
    /\ context.kind = "returned"
    /\ context.value = parseOccasionKeywordBased(input)

\* C2 witness: the reply held two objects, and the caller got the keyword
\* result of "wedding in Japan"
C2_Witness ==
  /\ cpPc = "done"
  /\ aiAnswer.kind = "text"
  /\ HasSpan(aiAnswer.text)
  /\ ~Decodable(aiAnswer.text)
  /\ input = "wedding in Japan"
  /\ context.kind = "returned"
  /\ context.value.occasion = JStr("wedding")
  /\ context.value.location = JStr("Japan")
  /\ context.value.formality = JStr("formal")

----------------------------------------------------------------------------
(* Properties of RecommenderEngine, checked under Spec.                    *)

\* C3: a response that is returned, by either entry point, in any flow and
\* for any model reply, has a non-blank occasion, a non-blank summary and
\* at least one recommendation, and every recommendation is a string that is
\* not empty once trimmed.
C3_ReturnedResponseIsUsable ==
  outcome.kind = "response" =>
    /\ NonBlankString(outcome.response.occasion)
    /\ NonBlankString(outcome.response.summary)
    /\ outcome.response.recommendations.t = "array"
    /\ Len(outcome.response.recommendations.v) >= 1
    /\ \A i \in 1..Len(outcome.response.recommendations.v) :
         NonBlankString(outcome.response.recommendations.v[i])

\* C3 witness: the legacy entry point returned a response with two
\* recommendations
C3_Witness ==
  /\ called = "legacy"
  /\ outcome.kind = "response"
  /\ Len(outcome.response.recommendations.v) = 2

\* C4: generateRecommendationsWithImage fails when imageBase64 or
\* occasionText is empty or whitespace only, with useWeather true or false,
\* and then no text call, no vision call and no weather lookup is issued.
C4_BlankInputIsRejected ==
  (called = "image" /\ (AllWhitespace(imageBase64) \/ AllWhitespace(occasionText))) =>
    /\ pc = "done"
    /\ outcome.kind = "error"
    /\ calls = << >>

\* C4 witness: a whitespace-only occasion text, with the weather flow asked
\* for and a weather service configured
C4_Witness ==
  /\ called = "image"
  /\ weatherService
  /\ useWeather
  /\ imageBase64 = "iVBORw0KGgo="
  /\ occasionText = " \t"
  /\ outcome.kind = "error"

\* the inputs passed validation, so that a flow was selected
FlowSelected ==
  /\ called = "image"
  /\ ~AllWhitespace(imageBase64)
  /\ ~AllWhitespace(occasionText)

\* C5: flow selection in generateRecommendationsWithImage.  With useWeather
\* false or no weather service configured, a request (whose inputs passed
\* validation) issues exactly one vision call, no text call and no weather
\* lookup; with useWeather true and a weather service configured, a request
\* that completes without error has issued exactly one text call and
\* exactly one vision call.
C5_FlowSelection ==
  /\ (FlowSelected /\ (~useWeather \/ ~weatherService)) =>
       /\ Started("vision") = 1
       /\ Started("text") = 0
       /\ Started("weather") = 0
  /\ (FlowSelected /\ useWeather /\ weatherService /\ outcome.kind = "response") =>
       /\ Started("text") = 1
       /\ Started("vision") = 1

\* C5 witness: useWeather is true but no weather service is configured, and
\* the request completed
C5_Witness ==
  /\ FlowSelected
  /\ useWeather
  /\ ~weatherService
  /\ outcome.kind = "response"
  /\ Started("vision") = 1

\* C6: within a weather-aware request the weather lookup is not started
\* before the location-extraction call has completed, and the vision call
\* is not started before the location-extraction call has completed and
\* every weather lookup started before it has completed or failed.
C6_CallsAreSequential ==
  flow = "weather" =>
    \A i \in 1..Len(calls) :
      /\ calls[i] = Call("weather", "start") =>
           \E j \in 1..(i - 1) : calls[j] = Call("text", "end")
      /\ calls[i] = Call("vision", "start") =>
           /\ \E j \in 1..(i - 1) : calls[j] = Call("text", "end")
           /\ \A j \in 1..(i - 1) :
                calls[j] = Call("weather", "start") =>
                  \E h \in (j + 1)..(i - 1) :
                    calls[h] \in {Call("weather", "end"), Call("weather", "fail")}

\* C6 witness: text call, weather lookup and vision call, one after the other
C6_Witness ==
  /\ flow = "weather"
  /\ pc = "done"
  /\ calls = << Call("text", "start"), Call("text", "end"),
                Call("weather", "start"), Call("weather", "end"),
                Call("vision", "start"), Call("vision", "end") >>

\* the weather lookup of the request threw
WeatherLookupFailed == \E i \in 1..Len(calls) : calls[i] = Call("weather", "fail")

\* C7: in the weather-aware flow, when the weather lookup throws, the vision
\* call is issued all the same; with a usable model reply the request
\* returns a response with weatherConsidered = false, no weatherData, and
\* the recommendations of the reply; and an error, if the caller gets one,
\* comes from the vision call or from the reply, never from the weather
\* lookup.
C7_WeatherFailureIsNotFatal ==
  WeatherLookupFailed =>
    /\ Started("vision") = 1
    /\ (ReplyDelivered /\ UsableReply(reply)) =>
         /\ outcome.kind = "response"
         /\ outcome.response.weatherConsidered = JBool(FALSE)
         /\ ~outcome.response.weatherData.present
         /\ outcome.response.recommendations = ValueOf(reply, "recommendations")
    /\ outcome.kind = "error" =>
         \/ \E i \in 1..Len(calls) : calls[i] = Call("vision", "fail")
         \/ ReplyDelivered /\ ~UsableReply(reply)

\* C7 witness: the lookup threw and the response came back without weather
C7_Witness ==
  /\ WeatherLookupFailed
  /\ outcome.kind = "response"
  /\ outcome.response.weatherConsidered = JBool(FALSE)
  /\ location = "Tokyo, Japan"

\* the weather lookup of the request resolved
WeatherLookupSucceeded == \E i \in 1..Len(calls) : calls[i] = Call("weather", "end")

\* C8: a response returned by the weather-aware flow has a boolean
\* weatherConsidered, which is true exactly when the response has
\* weatherData, which is there exactly when the weather lookup succeeded.
C8_WeatherConsideredIsSet ==
  (flow = "weather" /\ outcome.kind = "response") =>
    /\ outcome.response.weatherConsidered \in {JBool(TRUE), JBool(FALSE)}
    /\ outcome.response.weatherConsidered = JBool(TRUE)
         <=> outcome.response.weatherData.present
    /\ outcome.response.weatherData.present <=> WeatherLookupSucceeded

\* C8 witness: the model answered "NONE", no lookup was made, and the
\* response says weatherConsidered = false although the reply claimed true
C8_Witness ==
  /\ flow = "weather"
  /\ outcome.kind = "response"
  /\ location = "NONE"
  /\ ValueOf(reply, "weatherConsidered") = JBool(TRUE)
  /\ outcome.response.weatherConsidered = JBool(FALSE)

\* the LLM call that produces the recommendations rejected
PrimaryCallFailed ==
  \/ flow \in {"single", "weather"} /\ \E i \in 1..Len(calls) : calls[i] = Call("vision", "fail")
  \/ flow = "legacy" /\ \E i \in 1..Len(calls) : calls[i] = Call("text", "fail")

\* C9: there is no fallback recommendation.  When the vision call (single
\* and weather-aware flows) or the text call (legacy flow) throws, or its
\* reply cannot be decoded as JSON, the request fails and returns no
\* response; and what the call threw, when it is an Error, is what the
\* caller receives, message included.
C9_NoFallbackRecommendation ==
  /\ (PrimaryCallFailed \/ (ReplyDelivered /\ ~Decodable(reply))) =>
       /\ pc = "done"
       /\ outcome.kind = "error"
  /\ (PrimaryCallFailed /\ rejection.kind = "Error") =>
       /\ outcome.error = rejection
       /\ outcome.error.message = "Claude API failed"

\* C9 witness: the vision call of the weather-aware flow threw an Error
C9_Witness ==
  /\ flow = "weather"
  /\ PrimaryCallFailed
  /\ WeatherLookupSucceeded
  /\ rejection.kind = "Error"
  /\ outcome.kind = "error"

\* C10: when the reply is a JSON object whose "recommendations" is missing
\* or is no array, the assembled response has the empty list for
\* recommendations and the request fails, in every flow.
C10_MissingRecommendationsFail ==
  (ReplyDelivered /\ Decodable(reply)
     /\ ValueOf(reply, "recommendations").t # "array") =>
    /\ recommendations.recommendations = JArr(<< >>)
    /\ outcome.kind = "error"

\* C10 witness: occasion and summary are fine, recommendations is missing,
\* and validation complains of just that
C10_Witness ==
  /\ ReplyDelivered
  /\ Decodable(reply)
  /\ ValueOf(reply, "recommendations") = JUndef
  /\ NonBlankString(ValueOf(reply, "occasion"))
  /\ NonBlankString(ValueOf(reply, "summary"))
  /\ outcome.kind = "error"
  /\ outcome.error.message
       = "Recommendation response must include at least one outfit recommendation"

\* the response was assembled from the reply and handed to validateResponse
Validated == ReplyDelivered /\ recommendations # NoResponse

\* C11: for a response whose occasion and summary are non-blank strings,
\* validateResponse returns without throwing (the request returns the
\* response) if and only if recommendations has at least one entry and
\* every entry is a string that is not empty once trimmed.
C11_ValidateAcceptsExactlyGoodLists ==
  ( /\ Validated
    /\ NonBlankString(recommendations.occasion)
    /\ NonBlankString(recommendations.summary) ) =>
    ( outcome.kind = "response"
      <=> /\ Len(recommendations.recommendations.v) >= 1
          /\ \A i \in 1..Len(recommendations.recommendations.v) :
               NonBlankString(recommendations.recommendations.v[i]) )

\* C11 witness: the first recommendation is fine, the second is blank, and
\* validateResponse throws
C11_Witness ==
  /\ Validated
  /\ NonBlankString(recommendations.occasion)
  /\ NonBlankString(recommendations.summary)
  /\ recommendations.recommendations = JArr(<< JStr("a"), JStr(" ") >>)
  /\ outcome.kind = "error"
  /\ outcome.error.message = "All recommendations must be non-empty strings"

\* what the parsers of the engine say when the reply has no {...} span
NoSpanMessage ==
  IF flow = "legacy"
  THEN "Failed to parse recommendation response: No JSON object found in Claude's response"
  ELSE "Failed to parse comprehensive response: No JSON object found in Claude's response"

\* C12: JSON extraction takes the span from the first "{" to the last "}"
\* of the reply and parses exactly that.  A reply without a "{" followed
\* by a "}" fails; a reply whose span is not one JSON object (two objects
\* side by side, say) fails and no part of it is returned; and a reply
\* whose span is an object gives the values of that object.  The second
\* conjunct says the same of the extraction in parseOccasionWithAI, where
\* a failure shows as the keyword path's result.
C12_GreedySpanExtraction ==
  /\ ReplyDelivered =>
       /\ ~HasSpan(reply) =>
            /\ outcome.kind = "error"
            /\ outcome.error.message = NoSpanMessage
            /\ recommendations = NoResponse
       /\ (HasSpan(reply) /\ ~Decodable(reply)) =>
            /\ outcome.kind = "error"
            /\ outcome.error.message # NoSpanMessage
            /\ recommendations = NoResponse
       /\ Decodable(reply) =>
            /\ recommendations # NoResponse
            /\ NonBlankString(ValueOf(reply, "summary")) =>
                 recommendations.summary = ValueOf(reply, "summary")
            /\ ValueOf(reply, "recommendations").t = "array" =>
                 recommendations.recommendations = ValueOf(reply, "recommendations")
  /\ (cpPc = "done" /\ aiAnswer.kind = "text") =>
       /\ ~Decodable(aiAnswer.text) =>
            context.value.occasion = parseOccasionKeywordBased(input).occasion
       /\ (Decodable(aiAnswer.text)
             /\ NonBlankString(ValueOf(aiAnswer.text, "occasion"))) =>
            context.value.occasion = ValueOf(aiAnswer.text, "occasion")

\* C12 witness: the reply holds two JSON objects side by side, each of them
\* a complete answer, and the request fails
C12_Witness ==
  /\ ReplyDelivered
  /\ reply = Render(GoodCore) \o Render(GoodCore)
  /\ outcome.kind = "error"
  /\ recommendations = NoResponse

----------------------------------------------------------------------------
(* Properties of the keyword path of ContextParser, checked under          *)
(* ParserSpec.                                                             *)

\* parseOccasion returned what the keyword path computes: the AI path was
\* not taken, or it failed
KeywordPathTaken == cpPc = "done" /\ (aiAnswer.kind = "none" \/ AIPathFailed)

\* the keyword occurs in the text as a substring
Occurs(keyword, text) ==
  \E i \in 0..(Len(text) - Len(keyword)) :
    \A h \in 1..Len(keyword) : CharAt(text, i + h) = CharAt(keyword, h)

\* the occasions in their canonical order
CanonicalOccasions ==
  << "interview", "wedding", "workout", "funeral", "gala", "formal event",
     "business", "party", "date", "casual dining", "beach",
     "outdoor activity", "casual" >>

\* a keyword of the occasion occurs in the text
OccasionMentioned(name, text) ==
  \E g \in 1..Len(occasions) :
    /\ occasions[g].value = name
    /\ \E k \in 1..Len(occasions[g].keywords) : Occurs(occasions[g].keywords[k], text)

\* C13: on the keyword path the occasion is the first one, in the canonical
\* order, that has a keyword occurring in the lower-cased input, and
\* "general" when none has; an input with keywords of several groups
\* resolves to the earliest one: "job interview tomorrow" is an interview,
\* "casual workout" a workout.
C13_OccasionByCanonicalOrder ==
  KeywordPathTaken =>
    /\ \A i \in 1..Len(CanonicalOccasions) :
         ( /\ OccasionMentioned(CanonicalOccasions[i], toLowerCase(input))
           /\ \A j \in 1..(i - 1) :
                ~OccasionMentioned(CanonicalOccasions[j], toLowerCase(input)) )
         => context.value.occasion = JStr(CanonicalOccasions[i])
    /\ (\A i \in 1..Len(CanonicalOccasions) :
          ~OccasionMentioned(CanonicalOccasions[i], toLowerCase(input)))
         => context.value.occasion = JStr("general")
    /\ input = "job interview tomorrow" => context.value.occasion = JStr("interview")
    /\ input = "casual workout" => context.value.occasion = JStr("workout")

\* C13 witness: "casual workout", with keywords of the workout, business and
\* casual groups, resolved to workout
C13_Witness ==
  /\ KeywordPathTaken
  /\ input = "casual workout"
  /\ OccasionMentioned("business", input)
  /\ OccasionMentioned("casual", input)
  /\ context.value.occasion = JStr("workout")

\* the text says "prefer", "want" or "need" right before the word
Desired(word, text) ==
  \E verb \in {"prefer", "want", "need"} : Occurs(verb \o " " \o word, text)

\* the word is one of the preferences of the returned context
Preferred(word) ==
  \E i \in 1..Len(context.value.preferences.v) :
    context.value.preferences.v[i] = JStr(word)

\* C14: on the keyword path "casual" and "formal" are left out of the
\* preferences unless the input has "prefer", "want" or "need" right before
\* the word, and then the word is one of the preferences: "i prefer casual
\* clothes" gives preferences with "casual", "casual party" gives none.
C14_CasualFormalNeedDesireVerb ==
  KeywordPathTaken =>
    /\ \A word \in {"casual", "formal"} :
         Preferred(word) <=> Desired(word, toLowerCase(input))
    /\ input = "i prefer casual clothes" => Preferred("casual")
    /\ input = "casual party" => context.value.preferences = JArr(<< >>)

\* the text names a religious site
ReligiousSite(text) ==
  \E word \in {"temple", "mosque", "church"} : Occurs(word, text)

\* the notes the table of cultural notes has for a location
NotesOf(loc) == {culturalContext[i].value : i \in {j \in 1..Len(culturalContext) :
                                                    JStr(culturalContext[j].key) = loc}}

\* C15: on the keyword path, an input with "temple", "mosque" or "church"
\* gets the religious-site note whatever location was found; otherwise
\* culturalNotes is the note of the resolved location when it has one; and
\* culturalNotes is absent when neither applies.
C15_CulturalNotesPriority ==
  KeywordPathTaken =>
    /\ ReligiousSite(toLowerCase(input)) =>
         context.value.culturalNotes
           = JStr("Religious site - modest, respectful attire required")
    /\ (~ReligiousSite(toLowerCase(input)) /\ NotesOf(context.value.location) # {}) =>
         /\ context.value.culturalNotes.t = "string"
         /\ context.value.culturalNotes.v \in NotesOf(context.value.location)
    /\ (~ReligiousSite(toLowerCase(input)) /\ NotesOf(context.value.location) = {}) =>
         context.value.culturalNotes = JUndef

\* C15 witness: a temple in Thailand, a location with a note of its own
C15_Witness ==
  /\ KeywordPathTaken
  /\ input = "Temple visit in Thailand"
  /\ context.value.location = JStr("Thailand")
  /\ NotesOf(context.value.location) # {}
  /\ context.value.culturalNotes
       = JStr("Religious site - modest, respectful attire required")

\* c with its upper-case letter when it is a lower-case letter
UpperOf(c) ==
  IF \E i \in 1..Len(LowerChars) : CharAt(LowerChars, i) = c
  THEN CharAt(UpperChars, CHOOSE i \in 1..Len(LowerChars) : CharAt(LowerChars, i) = c)
  ELSE c

\* t is s with the first letter of every word in upper case
TitleCased(t, s) ==
  /\ Len(t) = Len(s)
  /\ \A i \in 1..Len(s) :
       CharAt(t, i) = IF i = 1 \/ CharAt(s, i - 1) = " "
                      THEN UpperOf(CharAt(s, i)) ELSE CharAt(s, i)

C17_FormalityByOccasion ==
  KeywordPathTaken =>
    context.value.formality =
      IF context.value.occasion.v
           \in {"wedding", "funeral", "gala", "formal event", "interview"}
      THEN JStr("formal")
      ELSE IF context.value.occasion.v \in {"business", "casual dining", "date"}
      THEN JStr("business-casual")
      ELSE IF context.value.occasion.v = "workout"
      THEN JStr("athletic")
      ELSE JStr("casual")

\* C17 witness: "outdoor activity" has no entry in the table and is casual
C17_Witness ==
  /\ KeywordPathTaken
  /\ input = "outdoor hiking"
  /\ context.value.occasion = JStr("outdoor activity")
  /\ \A i \in 1..Len(formalityMap) : formalityMap[i].key # "outdoor activity"
  /\ context.value.formality = JStr("casual")

----------------------------------------------------------------------------
(* Properties of repeated calls, checked under KeywordSpec.                *)

\* the calls made so far, the one that has just settled included
CallsSettled ==
  IF cpPc = "done"
  THEN Append(history, [input |-> input, answer |-> aiAnswer, context |-> context])
  ELSE history

\* the call returned what the keyword path computes
ByKeywordPath(call) ==
  \/ call.answer.kind = "none"
  \/ call.answer.kind = "thrown"
  \/ call.answer.kind = "text" /\ ~Decodable(call.answer.text)

----------------------------------------------------------------------------
(* Further properties of RecommenderEngine, checked under Spec.            *)

\* the values an object has under a key
MembersOf(o, key) == {o.v[i][2] : i \in {j \in 1..Len(o.v) : o.v[j][1] = key}}

\* C19: every OccasionContext the system produces has a formality among
\* casual, business-casual, formal and athletic, the occasionContext inside
\* a response returned by generateRecommendationsWithImage included: a
\* formality of the model reply outside the set is coerced to casual
\* before the response is returned.
C19_ResponseFormalityInEnum ==
  ( /\ called = "image"
    /\ outcome.kind = "response"
    /\ outcome.response.occasionContext.t = "object" ) =>
    /\ MembersOf(outcome.response.occasionContext, "formality")
         \subseteq {JStr("casual"), JStr("business-casual"), JStr("formal"),
                    JStr("athletic")}
    /\ JStr("fancy") \in MembersOf(ValueOf(reply, "occasionContext"), "formality")
         => MembersOf(outcome.response.occasionContext, "formality") = {JStr("casual")}

----------------------------------------------------------------------------
(* Properties of VisionServiceImpl, checked under VisionSpec.              *)

\* x is a non-empty string that neither starts nor ends with whitespace
TrimmedNonEmpty(x) ==
  /\ x.t = "string"
  /\ Len(x.v) >= 1
  /\ CharAt(x.v, 1) \notin Whitespace
  /\ CharAt(x.v, Len(x.v)) \notin Whitespace

\* C20: every ClothingItem of a ClothingAnalysis that analyzeClothing
\* returns, whatever the model replied, has a type, a color and a style
\* that are non-empty strings without leading or trailing whitespace, and a
\* material and a condition that are absent or non-empty, never "".
C20_ClothingItemsAreClean ==
  analysis.kind = "response" =>
    \A i \in 1..Len(analysis.response.items) :
      /\ TrimmedNonEmpty(analysis.response.items[i].type)
      /\ TrimmedNonEmpty(analysis.response.items[i].color)
      /\ TrimmedNonEmpty(analysis.response.items[i].style)
      /\ analysis.response.items[i].material # JStr("")
      /\ analysis.response.items[i].condition # JStr("")

----------------------------------------------------------------------------
(* Properties of the AI path of ContextParser, checked under ParserSpec.   *)

\* the AI path produced the context: the reply decoded to an object
AIPathTaken == cpPc = "done" /\ aiAnswer.kind = "text" /\ Decodable(aiAnswer.text)

\* an optional text of the context, given what the model said: absent for
\* null or nothing, and never the empty string
OptionalTextOk(said, got) ==
  /\ said \in {JNull, JUndef} => got = JUndef
  /\ got # JStr("")

\* a list of the context, given what the model said: the model's array, and
\* the empty list for anything else
ListOk(said, got) == got = IF said.t = "array" THEN said ELSE JArr(<< >>)

\* C21: on the AI path, with a reply that decodes to an object, location,
\* weatherConsideration and culturalNotes are absent whenever the model's
\* value is null or missing, and are never the empty string; tone and
\* preferences are the model's value when it is an array and the empty
\* list otherwise.
C21_AIOptionalFields ==
  AIPathTaken =>
    /\ OptionalTextOk(ValueOf(aiAnswer.text, "location"), context.value.location)
    /\ OptionalTextOk(ValueOf(aiAnswer.text, "weatherConsideration"),
                      context.value.weatherConsideration)
    /\ OptionalTextOk(ValueOf(aiAnswer.text, "culturalNotes"),
                      context.value.culturalNotes)
    /\ ListOk(ValueOf(aiAnswer.text, "tone"), context.value.tone)
    /\ ListOk(ValueOf(aiAnswer.text, "preferences"), context.value.preferences)

\* C21 witness: the model gave "" for the location, null for the weather
\* and a string for the preferences
C21_Witness ==
  /\ AIPathTaken
  /\ ValueOf(aiAnswer.text, "location") = JStr("")
  /\ ValueOf(aiAnswer.text, "weatherConsideration") = JNull
  /\ ValueOf(aiAnswer.text, "preferences") = JStr("comfy")
  /\ context.value.location = JUndef
  /\ context.value.weatherConsideration = JUndef
  /\ context.value.preferences = JArr(<< >>)

----------------------------------------------------------------------------
(* Further properties of RecommenderEngine, checked under Spec.            *)

\* an optional list of the response, given what the model said: the
\* model's array, and absent for anything else
OptionalListOk(said, got) == got = IF said.t = "array" THEN said ELSE JUndef

\* the request brings a location to fall back on (legacy flow only)
FallbackLocation ==
  /\ flow = "legacy"
  /\ \E l \in MembersOf(request.occasionContext, "location") :
       l \notin {JNull, JUndef, JStr("")}

\* C22: in a returned response culturalTips, dontWear and shoppingTips are
\* each absent when the model's value is null, missing or no array, and are
\* the model's array, an empty one included, otherwise; location is absent
\* when the model gives null or nothing and there is no fallback location.
C22_OptionalFieldsOfResponse ==
  outcome.kind = "response" =>
    /\ OptionalListOk(ValueOf(reply, "culturalTips"), outcome.response.culturalTips)
    /\ OptionalListOk(ValueOf(reply, "dontWear"), outcome.response.dontWear)
    /\ OptionalListOk(ValueOf(reply, "shoppingTips"), outcome.response.shoppingTips)
    /\ (ValueOf(reply, "location") \in {JNull, JUndef} /\ ~FallbackLocation)
         => outcome.response.location = JUndef

\* C22 witness: null for dontWear, an array for shoppingTips, nothing for
\* culturalTips
C22_Witness ==
  /\ outcome.kind = "response"
  /\ ValueOf(reply, "dontWear") = JNull
  /\ ValueOf(reply, "shoppingTips") = JArr(<< JStr("t") >>)
  /\ outcome.response.dontWear = JUndef
  /\ outcome.response.culturalTips = JUndef
  /\ outcome.response.shoppingTips = JArr(<< JStr("t") >>)

\* the legacy request lacks something generateRecommendations asks for
RequestIncomplete ==
  \/ request.clothingAnalysis = JUndef
  \/ request.occasionContext = JUndef
  \/ MembersOf(request.clothingAnalysis, "items") = {JArr(<< >>)}
  \/ MembersOf(request.occasionContext, "occasion") = {JStr("")}

\* the legacy request has a clothing item and a non-empty occasion
RequestComplete ==
  /\ \E items \in MembersOf(request.clothingAnalysis, "items") :
       items.t = "array" /\ Len(items.v) >= 1
  /\ \E occ \in MembersOf(request.occasionContext, "occasion") :
       occ.t = "string" /\ Len(occ.v) >= 1

\* C23: generateRecommendations rejects a request without clothingAnalysis
\* or occasionContext, with no items, or with an empty occasion, and then
\* issues no LLM call; for a request it accepts it issues exactly one text
\* call and no vision call.
C23_LegacyRequestValidation ==
  called = "legacy" =>
    /\ RequestIncomplete =>
         /\ pc = "done"
         /\ outcome.kind = "error"
         /\ calls = << >>
    /\ RequestComplete =>
         /\ Started("text") = 1
         /\ Started("vision") = 0
         /\ Started("weather") = 0

\* C23 witness: a request with an empty list of items was rejected before
\* any call
C23_Witness ==
  /\ called = "legacy"
  /\ MembersOf(request.clothingAnalysis, "items") = {JArr(<< >>)}
  /\ MembersOf(request.occasionContext, "occasion") = {JStr("gym")}
  /\ outcome.kind = "error"
  /\ outcome.error.message = "Clothing analysis must contain at least one item"
  /\ calls = << >>


----------------------------------------------------------------------------
(* C24 *)

\* the lookup received a photo list whose first photo has its urls and user
UsablePhoto(answer) ==
  /\ answer.kind = "json"
  /\ answer.results # << >>
  /\ answer.results[1].urls
  /\ answer.results[1].user

\* the image is the first photo the i-th lookup received, or, when that
\* lookup failed or found nothing, a generated placeholder captioned with the
\* i-th recommendation
BelongsTo(image, i) ==
  IF UsablePhoto(lookups[i].answer)
  THEN /\ image.source = "unsplash"
       /\ image.url = lookups[i].answer.results[1].regular
  ELSE /\ image.source = "generated"
       /\ image.description = imgRecs[i]

\* C24: a finished getImagesForRecommendations call has not thrown, and has
\* returned one image per recommendation, the i-th image belonging to the
\* i-th recommendation, in whatever order the lookups completed and
\* whichever of them failed.
C24_OneImagePerRecommendation ==
  imgPc = "done" =>
    /\ images.kind = "returned"
    /\ Len(images.value) = Len(imgRecs)
    /\ \A i \in 1..Len(imgRecs) : BelongsTo(images.value[i], i)

\* what remains true: a call that returns gives one image per recommendation,
\* in the order of the recommendations
C24_ReturnedImagesInOrder ==
  (imgPc = "done" /\ images.kind = "returned") =>
    /\ Len(images.value) = Len(imgRecs)
    /\ \A i \in 1..Len(imgRecs) : BelongsTo(images.value[i], i)

----------------------------------------------------------------------------
(* C25 *)

\* the answers call q received from the service
Heard(q, svc) == SelectSeq(q.got, LAMBDA g : g.svc = svc)

\* the weather snapshot call q itself obtained, NoWeather when it obtained none
OwnWeather(q) ==
  IF Heard(q, "weather") # << >> /\ Heard(q, "weather")[1].answer.ok
  THEN Heard(q, "weather")[1].answer.value
  ELSE NoWeather

\* the outcome of a call with q's arguments that runs alone on the engine and
\* receives the answers q received
AloneOutcome(q) ==
  LET vision == Heard(q, "vision")[1].answer
      parsed == parseSingleCallResponse(vision.value)
  IN  IF AllWhitespace(q.imageBase64)
      THEN Thrown(Error("Image data (base64) is required"))
      ELSE IF AllWhitespace(q.occasionText)
      THEN Thrown(Error("Occasion description is required"))
      ELSE IF Heard(q, "text") # << >> /\ ~Heard(q, "text")[1].answer.ok
      THEN Thrown(handleError(handleError(Heard(q, "text")[1].answer.error)))
      ELSE IF ~vision.ok THEN Thrown(handleError(vision.error))
      ELSE IF ~parsed.ok THEN Thrown(handleError(parsed.error))
      ELSE Conclude(Assemble(IF q.useWeather /\ weatherService THEN "weather" ELSE "single",
                             parsed.value, OwnWeather(q)))

\* C25: whatever the interleaving of two calls on one engine, a finished call
\* has the outcome it would have alone with the same arguments and answers,
\* and the weatherData and weatherConsidered of its response come from its
\* own weather lookup and never from the other call's.
C25_RequestsDoNotInterfere ==
  \A r \in 1..2 :
    reqs[r].pc = "done" =>
      /\ reqs[r].outcome = AloneOutcome(reqs[r])
      /\ reqs[r].outcome.kind = "response" =>
           /\ reqs[r].outcome.response.weatherData = OwnWeather(reqs[r])
           /\ (reqs[r].outcome.response.weatherConsidered = JBool(TRUE))
                <=> OwnWeather(reqs[r]).present

\* call 1 has returned with the weather of its own lookup while call 2, whose
\* lookup failed, is still waiting for its vision call
C25_Witness ==
  /\ reqs[1].pc = "done"
  /\ reqs[1].outcome.kind = "response"
  /\ reqs[1].outcome.response.weatherData.present
  /\ reqs[2].pc = "awaitVision"
  /\ reqs[2].flow = "weather"
  /\ Heard(reqs[2], "weather") # << >>
  /\ ~reqs[2].weatherData.present

----------------------------------------------------------------------------
(* C26 *)

\* no call is issued to a service after a call to that service has failed
NoRetry ==
  \A i \in 1..Len(calls) : \A j \in 1..Len(calls) :
    (calls[i].ev = "fail" /\ i < j) =>
      ~(calls[j].ev = "start" /\ calls[j].svc = calls[i].svc)

\* C26: when every collaborator call eventually returns or fails, a
\* generateRecommendationsWithImage request eventually completes, with a
\* response or an error; it issues at most one text call, one weather lookup
\* and one vision call, and never a call to a service that has failed.
C26_RequestCompletes ==
  /\ (called = "image") ~> (pc = "done" /\ outcome.kind \in {"response", "error"})
  /\ [](called = "image" =>
          /\ Started("text") <= 1
          /\ Started("weather") <= 1
          /\ Started("vision") <= 1
          /\ NoRetry)

\* a weather-aware request has completed although its weather lookup and
\* then its vision call failed, each tried once
C26_Witness ==
  /\ called = "image"
  /\ pc = "done"
  /\ calls = << Call("text", "start"), Call("text", "end"),
                Call("weather", "start"), Call("weather", "fail"),
                Call("vision", "start"), Call("vision", "fail") >>

----------------------------------------------------------------------------
(* C27 *)

\* the location-extraction call has resolved
LocationReplied == \E i \in 1..Len(calls) : calls[i] = Call("text", "end")

\* C27: in the weather-aware flow, once the location-extraction call has
\* resolved, the weather lookup has been issued if and only if the trimmed
\* reply is neither empty nor "NONE", and it is not issued before; after the
\* answer "NONE" a returned response has weatherConsidered = false.
C27_LookupIffLocation ==
  flow = "weather" =>
    /\ ~LocationReplied => Started("weather") = 0
    /\ LocationReplied =>
         (Started("weather") = 1 <=> (location # "" /\ location # "NONE"))
    /\ (LocationReplied /\ location = "NONE" /\ outcome.kind = "response") =>
         /\ Started("weather") = 0
         /\ outcome.response.weatherConsidered = JBool(FALSE)

\* the model answered "NONE" and the request returned a response
C27_Witness ==
  /\ flow = "weather"
  /\ LocationReplied
  /\ location = "NONE"
  /\ Started("weather") = 0
  /\ outcome.kind = "response"

----------------------------------------------------------------------------
(* C28 *)

\* the vision call has been issued
VisionIssued == \E i \in 1..Len(calls) : calls[i] = Call("vision", "start")

\* C28: in the weather-aware flow the vision call gets the weather-augmented
\* prompt if and only if the weather lookup succeeded; when no weather data
\* was obtained it gets the prompt of the single-call flow for the same
\* occasion text, and a returned response is the single-call flow's response
\* to the same reply with weatherConsidered added and false.
C28_NoWeatherIsSingleCall ==
  (flow = "weather" /\ VisionIssued) =>
    /\ prompt.template = "weather" <=> WeatherLookupSucceeded
    /\ ~WeatherLookupSucceeded =>
         /\ prompt = [template |-> "single", occasionText |-> occasionText,
                      weather |-> NoWeather, request |-> NoRequest]
         /\ outcome.kind = "response" =>
              /\ parseSingleCallResponse(reply).ok
              /\ parseSingleCallResponse(reply).value.weatherConsidered = JUndef
              /\ outcome.response =
                   [parseSingleCallResponse(reply).value
                      EXCEPT !.weatherConsidered = JBool(FALSE)]

\* a weather-aware request whose lookup failed has returned a response
C28_Witness ==
  /\ flow = "weather"
  /\ WeatherLookupFailed
  /\ prompt.template = "single"
  /\ outcome.kind = "response"
  /\ outcome.response.weatherConsidered = JBool(FALSE)

----------------------------------------------------------------------------
(* C29 *)

\* the location-extraction call has rejected
LocationCallFailed ==
  flow = "weather" /\ \E i \in 1..Len(calls) : calls[i] = Call("text", "fail")

\* C29: in the weather-aware flow a rejected location-extraction call ends
\* the request with an error that carries the rejection (the Error itself
\* when an Error was thrown), and neither the weather lookup nor the vision
\* call is ever issued.
C29_LocationFailureIsFatal ==
  LocationCallFailed =>
    /\ pc = "done"
    /\ outcome.kind = "error"
    /\ outcome.error.kind = "Error"
    /\ rejection.kind = "Error" => outcome.error = rejection
    /\ \E i \in 1..Len(outcome.error.message) :
         SubSeq(outcome.error.message, i, Len(outcome.error.message)) = rejection.message
    /\ Started("weather") = 0
    /\ Started("vision") = 0
    /\ calls = << Call("text", "start"), Call("text", "fail") >>

\* the location-extraction call threw a value that is no Error, and the
\* request has failed
C29_Witness ==
  /\ LocationCallFailed
  /\ rejection.kind = "primitive"
  /\ outcome.kind = "error"

----------------------------------------------------------------------------
(* C30 *)

\* the model's reply gives the member a value that is not empty
SaidByModel(key) == ValueOf(reply, key) \notin {JUndef, JNull, JStr("")}

\* the legacy flow has parsed the model's reply
LegacyParsed == flow = "legacy" /\ Validated

\* the response takes occasion and location from the reply when the reply
\* gives them, and from the request's occasionContext otherwise
LegacyFallsBack ==
  /\ recommendations.occasion =
       IF SaidByModel("occasion") THEN ValueOf(reply, "occasion")
       ELSE Get(request.occasionContext, "occasion")
  /\ recommendations.location =
       IF SaidByModel("location") THEN ValueOf(reply, "location")
       ELSE Get(request.occasionContext, "location")

\* C30: in the legacy flow the response's occasion and location are the
\* model's when non-empty and the request's otherwise; so when the model
\* omits the occasion the response is not labelled "Unknown" and the request
\* is not rejected for a missing occasion.
C30_LegacyOccasionFallback ==
  LegacyParsed =>
    /\ LegacyFallsBack
    /\ ~SaidByModel("occasion") =>
         /\ recommendations.occasion # JStr("Unknown")
         /\ ~( /\ outcome.kind = "error"
               /\ outcome.error.message = "Recommendation response must include an occasion" )

\* what remains true: the fallback itself, and no "Unknown" label
C30_FallbackWithoutUnknown ==
  LegacyParsed =>
    /\ LegacyFallsBack
    /\ ~SaidByModel("occasion") => recommendations.occasion # JStr("Unknown")
=============================================================================
